---- MODULE Spec2Model ----
(***************************************************************************)
(* Model of corgi's n-dimensional differentiable Array (src/src/array.rs): *)
(* the forward operators that record the graph, and the threaded backward  *)
(* pass (propagate_consumers, backward, await_results).                    *)
(*                                                                         *)
(* Nodes live in an arena `nodes`; a node id is its position.  Children    *)
(* are ids of earlier nodes, which is what the shared Arc fields of a      *)
(* cloned Array amount to.  Thread 0 is the caller of backward; thread n   *)
(* (n >= 1) is the worker spawned for node n.                              *)
(***************************************************************************)
EXTENDS Integers, Sequences, FiniteSets, TLC

\* Bounds of the model.
MaxNodes == 4
MaxCalls == 2

VARIABLES
    nodes,           \* arena: dimensions, values, children, backward_op
    consumer_count,  \* Array.consumer_count, per node
    tx,              \* Array.tx is Some(sender), per node
    tx_poisoned,     \* the tx mutex was held by a thread that panicked
    rx_alive,        \* the Receiver of the node's channel still exists
    inbox,           \* messages sent and not yet received, per node
    gradient,        \* Array.gradient, per node
    pc,              \* position of every thread
    delta,           \* the `delta` Array of the thread's await_results/backward
    acc,             \* the accumulator Vec<Float> of await_results
    outs,            \* result of the backward_op in backward
    idx,             \* loop position in the deliver loop / join loop
    handles,         \* JoinHandles pushed by the thread's backward
    err,             \* panic message of a thread
    calls,           \* the backward calls made by the caller so far
    received,        \* edges whose contribution the node's worker has taken
    visits           \* how often backward ran on the node in the current call

vars == <<nodes, consumer_count, tx, tx_poisoned, rx_alive, inbox, gradient,
          pc, delta, acc, outs, idx, handles, err, calls, received, visits>>

NodeIds == 1..MaxNodes
ThreadIds == 0..MaxNodes
Main == 0

NoArray == [dimensions |-> <<>>, values |-> <<>>, none |-> TRUE]
Arr(d, v) == [dimensions |-> d, values |-> v, none |-> FALSE]

NoOp == [kind |-> "None", a_transpose |-> FALSE, b_transpose |-> FALSE]
AddOp == [kind |-> "add", a_transpose |-> FALSE, b_transpose |-> FALSE]
MulOp == [kind |-> "mul", a_transpose |-> FALSE, b_transpose |-> FALSE]

Min(a, b) == IF a < b THEN a ELSE b
Max(a, b) == IF a < b THEN b ELSE a

\* The is_tracked flag that array/image.rs reads from an Array.  array.rs
\* declares no such field and none of its operators reads one; a constructed
\* array is untracked until tracked() is called on it.
Untracked == FALSE

\* impl Arrays for (Arc<Vec<usize>>, Arc<Vec<Float>>): a node without graph.
ArraysNew(d, v) ==
    [dimensions |-> d, values |-> v, children |-> <<>>, backward_op |-> NoOp,
     is_tracked |-> Untracked]

\* Array::tracked, as the tests of array/image.rs call it on a new array.
tracked(node) == [node EXCEPT !.is_tracked = TRUE]

\* impl Arrays for Vec<Float>
ArraysNewFlat(v) == ArraysNew(<<Len(v)>>, v)

\* impl Arrays for Vec<Array>: the arrays flattened under a new leading axis;
\* the constructor panics unless all elements have the first one's dimensions.
RECURSIVE Flattened(_, _)
Flattened(elems, k) ==
    IF k > Len(elems) THEN <<>> ELSE elems[k].values \o Flattened(elems, k + 1)

ArraysNewNested(elems) ==
    ArraysNew(<<Len(elems)>> \o elems[1].dimensions, Flattened(elems, 1))

with_children(node, children) == [node EXCEPT !.children = children]

with_backward_op(node, op) == [node EXCEPT !.backward_op = op]

add_values(a, b) == [k \in 1..Min(Len(a), Len(b)) |-> a[k] + b[k]]

mul_values(a, b) == [k \in 1..Min(Len(a), Len(b)) |-> a[k] * b[k]]

\* ops::Add for &Array: the node that `&ns[i] + &ns[j]` returns.
AddNode(ns, i, j) ==
    with_backward_op(
        with_children(ArraysNew(ns[i].dimensions,
                                add_values(ns[i].values, ns[j].values)),
                      <<i, j>>),
        AddOp)

\* ops::Mul for &Array
MulNode(ns, i, j) ==
    with_backward_op(
        with_children(ArraysNew(ns[i].dimensions,
                                mul_values(ns[i].values, ns[j].values)),
                      <<i, j>>),
        MulOp)

Ok(v) == [ok |-> TRUE, out |-> v]
Panic == [ok |-> FALSE, out |-> <<>>]

MatmulOp(at, bt) == [kind |-> "matmul", a_transpose |-> at, b_transpose |-> bt]

RECURSIVE Product(_, _, _)
Product(s, from, to) == IF from > to THEN 1 ELSE s[from] * Product(s, from + 1, to)

Take(s, k) == SubSeq(s, 1, Min(k, Len(s)))

\* fn flatten_indices_unchecked: the fold from position p on (positions count from 1)
RECURSIVE FlattenFrom(_, _, _, _)
FlattenFrom(indices, dimensions, p, a) ==
    IF p > Min(Len(indices), Len(dimensions)) THEN a
    ELSE FlattenFrom(indices, dimensions, p + 1, a * dimensions[p] + indices[p])

flatten_indices_unchecked(indices, dimensions) ==
    FlattenFrom(indices, dimensions, 2, indices[1])

\* The two index expressions of matmul_flat (indices count from 0).
AIndex(offset, r, k, output_rows, sum_len, a_transpose) ==
    offset + (IF a_transpose THEN k * output_rows + r ELSE r * sum_len + k)

BIndex(offset, j, k, output_cols, sum_len, b_transpose) ==
    offset + (IF b_transpose THEN j * sum_len + k ELSE k * output_cols + j)

\* The inner loop of matmul_flat: the sum over k = from..sum_len-1.
RECURSIVE Dot(_, _, _, _, _, _, _, _, _, _, _)
Dot(a, b, offset, r, j, output_rows, output_cols, sum_len, at, bt, from) ==
    IF from >= sum_len THEN 0
    ELSE a[AIndex(offset, r, from, output_rows, sum_len, at) + 1]
           * b[BIndex(offset, j, from, output_cols, sum_len, bt) + 1]
         + Dot(a, b, offset, r, j, output_rows, output_cols, sum_len, at, bt, from + 1)

\* Every index matmul_flat uses is inside its vector (Index<usize> and Vec
\* indexing panic otherwise).
FlatInBounds(la, lb, lv, output_rows, output_cols, sum_len, offset, output_offset, at, bt) ==
    \A r \in 0..(output_rows - 1), j \in 0..(output_cols - 1) :
        /\ output_offset + r * output_cols + j < lv
        /\ \A k \in 0..(sum_len - 1) :
              /\ AIndex(offset, r, k, output_rows, sum_len, at) < la
              /\ BIndex(offset, j, k, output_cols, sum_len, bt) < lb

\* fn matmul_flat: the values vector after the call.
matmul_flat(values, output_rows, output_cols, sum_len, offset, output_offset, a, b, at, bt) ==
    [p \in 1..Len(values) |->
        IF /\ p - 1 >= output_offset
           /\ p - 1 < output_offset + output_rows * output_cols
        THEN Dot(a, b, offset, (p - 1 - output_offset) \div output_cols,
                 (p - 1 - output_offset) % output_cols,
                 output_rows, output_cols, sum_len, at, bt, 0)
        ELSE values[p]]

\* The odometer step at the end of the batch loop of matmul_values, from
\* position `current` (counting from 1) down.
RECURSIVE NextIndices(_, _, _)
NextIndices(indices, adims, current) ==
    IF current < 1 THEN indices
    ELSE IF indices[current] = adims[current] - 1
         THEN NextIndices([indices EXCEPT ![current] = 0], adims, current - 1)
         ELSE [indices EXCEPT ![current] = @ + 1]

\* The batch loop of matmul_values with `left` iterations to go.
RECURSIVE MatmulLoop(_, _, _, _, _, _, _, _, _, _, _)
MatmulLoop(values, indices, left, a, b, output_dimensions, output_rows, output_cols, sum_len, at, bt) ==
    IF left = 0 THEN Ok(values)
    ELSE LET offset == flatten_indices_unchecked(indices \o <<0, 0>>, a.dimensions)
             output_offset == flatten_indices_unchecked(indices \o <<0, 0>>, output_dimensions)
         IN  IF ~FlatInBounds(Len(a.values), Len(b.values), Len(values), output_rows,
                              output_cols, sum_len, offset, output_offset, at, bt)
             THEN Panic
             ELSE MatmulLoop(
                      matmul_flat(values, output_rows, output_cols, sum_len, offset,
                                  output_offset, a.values, b.values, at, bt),
                      NextIndices(indices, a.dimensions, Len(indices)),
                      left - 1, a, b, output_dimensions, output_rows, output_cols,
                      sum_len, at, bt)

\* Variant of matmul_values that keeps the row axis of a single-row product.
matmul_values_keep_row(a, b, at, bt) ==
    LET la == Len(a.dimensions)
        lb == Len(b.dimensions)
        indices == [p \in 1..Max(Min(la, lb) - 2, 0) |-> 0]
        output_rows == IF la < 2 THEN 1 ELSE a.dimensions[la + 1 - (IF at THEN 1 ELSE 2)]
        output_cols == IF lb < 2 THEN 1 ELSE b.dimensions[lb + 1 - (IF bt THEN 2 ELSE 1)]
        sum_len == IF la < 2 /\ at THEN 1
                   ELSE a.dimensions[la + 1 - (IF at THEN 2 ELSE 1)]
        output_dimensions == Take(a.dimensions, Len(indices))
                               \o <<output_rows, output_cols>>
        output_length == Product(output_dimensions, 1, Len(output_dimensions))
        product == Product(a.dimensions, 1, la - 2)
        res == MatmulLoop([p \in 1..output_length |-> 0], indices, product, a, b,
                          output_dimensions, output_rows, output_cols, sum_len, at, bt)
    IN  IF la = 0 \/ lb = 0 THEN Panic
        ELSE IF res.ok THEN Ok(Arr(output_dimensions, res.out)) ELSE Panic

\* fn matmul_values without the graph fields: Ok(array) or Panic.
matmul_values(a, b, at, bt) ==
    LET la == Len(a.dimensions)
        lb == Len(b.dimensions)
        indices == [p \in 1..Max(Min(la, lb) - 2, 0) |-> 0]
        output_rows == IF la < 2 THEN 1 ELSE a.dimensions[la + 1 - (IF at THEN 1 ELSE 2)]
        output_cols == IF lb < 2 THEN 1 ELSE b.dimensions[lb + 1 - (IF bt THEN 2 ELSE 1)]
        sum_len == IF la < 2 /\ at THEN 1
                   ELSE a.dimensions[la + 1 - (IF at THEN 2 ELSE 1)]
        output_dimensions == Take(a.dimensions, Len(indices))
                               \o (IF output_rows = 1 THEN <<output_cols>>
                                   ELSE <<output_rows, output_cols>>)
        output_length == Product(output_dimensions, 1, Len(output_dimensions))
        product == Product(a.dimensions, 1, la - 2)
        res == MatmulLoop([p \in 1..output_length |-> 0], indices, product, a, b,
                          output_dimensions, output_rows, output_cols, sum_len, at, bt)
    IN  IF la = 0 \/ lb = 0 THEN Panic
        ELSE IF res.ok THEN Ok(Arr(output_dimensions, res.out)) ELSE Panic

\* The backward_op closure of matmul_values (lines 202-216).
matmul_backward(c, x, at, bt) ==
    LET delta_a == IF at THEN matmul_values(c[2], x, bt, TRUE)
                   ELSE matmul_values(x, c[2], FALSE, ~bt)
        delta_b == IF bt THEN matmul_values(x, c[1], TRUE, at)
                   ELSE matmul_values(c[1], x, ~at, FALSE)
    IN  IF delta_a.ok /\ delta_b.ok THEN Ok(<<delta_a.out, delta_b.out>>) ELSE Panic

\* Array::matmul: the node that matmul(&ns[i], &ns[j], at, bt) returns, or Panic.
MatmulNode(ns, i, j, at, bt) ==
    LET res == matmul_values(ns[i], ns[j], at, bt)
    IN  IF res.ok
        THEN Ok(with_backward_op(
                    with_children(ArraysNew(res.out.dimensions, res.out.values), <<i, j>>),
                    MatmulOp(at, bt)))
        ELSE Panic

\* Variant of the closure of ops::Add that passes nothing to the second child.
add_backward_first_only(c, x) ==
    <<Arr(x.dimensions, x.values), Arr(x.dimensions, [k \in 1..Len(x.values) |-> 0])>>

\* The backward_op closure of ops::Add
add_backward(c, x) == <<Arr(x.dimensions, x.values), Arr(x.dimensions, x.values)>>

\* Variant of the closure of ops::Mul that multiplies by the child's own values.
mul_backward_own_values(c, x) ==
    <<Arr(c[1].dimensions, mul_values(c[1].values, x.values)),
      Arr(c[2].dimensions, mul_values(c[2].values, x.values))>>

\* The backward_op closure of ops::Mul
mul_backward(c, x) ==
    <<Arr(c[1].dimensions, mul_values(c[2].values, x.values)),
      Arr(c[2].dimensions, mul_values(c[1].values, x.values))>>

\* (*x)(&children_guard, &delta)
ApplyBackwardOp(op, c, x) ==
    CASE op.kind = "add" -> Ok(add_backward(c, x))
      [] op.kind = "mul" -> Ok(mul_backward(c, x))
      [] op.kind = "matmul" -> matmul_backward(c, x, op.a_transpose, op.b_transpose)
      [] OTHER -> Panic

ChildNodes(ns, n) == [i \in 1..Len(ns[n].children) |-> ns[ns[n].children[i]]]

\* propagate_consumers counting a consumer on every node of the arena
propagate_consumers_every(ns, cc, n, i) == [m \in NodeIds |-> cc[m] + 1]

\* Array::propagate_consumers, from child slot i of node n on.
RECURSIVE propagate_consumers(_, _, _, _)
propagate_consumers(ns, cc, n, i) ==
    IF i > Len(ns[n].children) THEN cc
    ELSE LET child == ns[n].children[i]
             cc1 == [cc EXCEPT ![child] = @ + 1]
             cc2 == propagate_consumers(ns, cc1, child, 1)
         IN  propagate_consumers(ns, cc2, n, i + 1)

Ones(k) == [j \in 1..k |-> 1]

\* delta of backward(None): vec![1.0; self.values.len()] with the root's dimensions
OnesLike(node) == Arr(node.dimensions, Ones(Len(node.values)))

\* A seed with one more value than the root and matching rank-1 dimensions.
BadSeed(node) == Arr(<<Len(node.values) + 1>>, Ones(Len(node.values) + 1))

SeedKinds == {"None", "Ones", "BadShape"}

SeedArray(kind, node) ==
    IF kind = "BadShape" THEN BadSeed(node) ELSE OnesLike(node)

\* the closure `sum` of await_results
sum(a, x) == [k \in 1..Len(a) |-> IF k <= Len(x) THEN a[k] + x[k] ELSE a[k]]

\* Variant of the loop condition that leaves the last contribution out.
RecvCondition_AboveOne(cc) == cc > 1

\* the loop condition of await_results
RecvCondition(cc) == cc > 0

\* Variant of the match that never finds an installed sender.
TxInstalled_Never(t) == FALSE

\* the `match &*tx_guard` of backward: Some(x) or None
TxInstalled(t) == t

\* Variant of join that does not wait for the worker.
JoinReady_NoWait(p) == TRUE

\* handle.join() returns once the worker has terminated
JoinReady(p) == p \in {"done", "panicked"}

\* Variant of the test that takes every node without backward_op for a leaf.
HasChildren_Never(node) == FALSE

\* the test of the None arm of backward
HasChildren(node) == Len(node.children) # 0

Root == calls[Len(calls)].root
NodeOf(t) == IF t = Main THEN Root ELSE t
Returned(t) == IF t = Main THEN "idle" ELSE "done"
Panicked(t) == IF t = Main THEN "failed" ELSE "panicked"
\* Variant in which the Receiver of a worker outlives the worker.
DropRx_Keep(t) == rx_alive

\* a worker that ends drops the Receiver it owns
DropRx(t) == IF t = Main THEN rx_alive ELSE [rx_alive EXCEPT ![t] = FALSE]

\* The leaves the caller starts from: arr![5.0] and arr![2.0], or
\* arr![arr![5.0, 2.0]] and arr![arr![6.0, 3.0]].
LeafSets ==
    {<<ArraysNewFlat(<<5>>), ArraysNewFlat(<<2>>)>>,
     <<ArraysNewNested(<<ArraysNewFlat(<<5, 2>>)>>),
       ArraysNewNested(<<ArraysNewFlat(<<6, 3>>)>>)>>}

\* Before the first operation: no counter, channel or gradient is set (the
\* fields of the tuple constructor) and no thread but the caller exists.
Quiescent ==
    /\ consumer_count = [n \in NodeIds |-> 0]
    /\ tx = [n \in NodeIds |-> FALSE]
    /\ tx_poisoned = [n \in NodeIds |-> FALSE]
    /\ rx_alive = [n \in NodeIds |-> FALSE]
    /\ inbox = [n \in NodeIds |-> <<>>]
    /\ gradient = [n \in NodeIds |-> NoArray]
    /\ pc = [t \in ThreadIds |-> IF t = Main THEN "idle" ELSE "none"]
    /\ delta = [t \in ThreadIds |-> NoArray]
    /\ acc = [t \in ThreadIds |-> <<>>]
    /\ outs = [t \in ThreadIds |-> <<>>]
    /\ idx = [t \in ThreadIds |-> 0]
    /\ handles = [t \in ThreadIds |-> <<>>]
    /\ err = [t \in ThreadIds |-> "None"]
    /\ calls = <<>>
    /\ received = [n \in NodeIds |-> {}]
    /\ visits = [n \in NodeIds |-> 0]

Init ==
    /\ nodes \in LeafSets
    /\ Quiescent

threadVars == <<pc, delta, acc, outs, idx, handles, err>>
nodeVars == <<consumer_count, tx, tx_poisoned, rx_alive, inbox, gradient>>
ghostVars == <<received, visits>>

\* ---- the caller's forward operations -----------------------------------

Construct(node) ==
    /\ pc[Main] = "idle"
    /\ Len(nodes) < MaxNodes
    /\ nodes' = Append(nodes, node)
    /\ UNCHANGED <<nodeVars, threadVars, ghostVars, calls>>

Add == \E i, j \in 1..Len(nodes) : Construct(AddNode(nodes, i, j))

Mul == \E i, j \in 1..Len(nodes) : Construct(MulNode(nodes, i, j))

\* Array::matmul; an out-of-range index in matmul_flat panics in the caller.
Matmul ==
    /\ pc[Main] = "idle"
    /\ Len(nodes) < MaxNodes
    /\ \E i, j \in 1..Len(nodes), at, bt \in BOOLEAN :
        LET res == MatmulNode(nodes, i, j, at, bt)
        IN  IF res.ok
            THEN Construct(res.out)
            ELSE /\ pc' = [pc EXCEPT ![Main] = "failed"]
                 /\ err' = [err EXCEPT ![Main] = "InvalidIndex"]
                 /\ UNCHANGED <<nodes, nodeVars, delta, acc, outs, idx, handles,
                                calls, ghostVars>>

\* Arrays::new(..).with_children(..) without with_backward_op
WithChildren ==
    \E i \in 1..Len(nodes) :
        Construct(with_children(ArraysNew(nodes[i].dimensions, nodes[i].values), <<i>>))

\* ---- backward ------------------------------------------------------------

\* The caller enters backward(delta): lines 271-277.
Backward ==
    \E r \in 1..Len(nodes), kind \in SeedKinds :
        /\ pc[Main] = "idle"
        /\ Len(calls) < MaxCalls
        /\ calls' = Append(calls, [root |-> r, seed |-> kind])
        /\ consumer_count' = IF kind = "None"
                             THEN propagate_consumers(nodes, consumer_count, r, 1)
                             ELSE consumer_count
        /\ delta' = [delta EXCEPT ![Main] = SeedArray(kind, nodes[r])]
        /\ pc' = [pc EXCEPT ![Main] = "visit"]
        /\ handles' = [handles EXCEPT ![Main] = <<>>]
        /\ received' = [n \in NodeIds |-> {}]
        /\ visits' = [n \in NodeIds |-> 0]
        /\ UNCHANGED <<nodes, tx, tx_poisoned, rx_alive, inbox, gradient,
                       acc, outs, idx, err>>

\* match &self.backward_op, Some arm: the backward_op is applied (line 282).
VisitOp(t) ==
    /\ pc[t] = "visit"
    /\ nodes[NodeOf(t)].backward_op.kind # "None"
    /\ LET n == NodeOf(t)
           res == ApplyBackwardOp(nodes[n].backward_op, ChildNodes(nodes, n), delta[t])
       IN  /\ visits' = [visits EXCEPT ![n] = @ + 1]
           /\ IF res.ok
              THEN /\ outs' = [outs EXCEPT ![t] = res.out]
                   /\ idx' = [idx EXCEPT ![t] = 1]
                   /\ handles' = [handles EXCEPT ![t] = <<>>]
                   /\ pc' = [pc EXCEPT ![t] = IF Len(res.out) = 0 THEN "join" ELSE "send"]
                   /\ UNCHANGED <<err, rx_alive>>
              ELSE /\ pc' = [pc EXCEPT ![t] = Panicked(t)]
                   /\ err' = [err EXCEPT ![t] = "OpPanic"]
                   /\ rx_alive' = DropRx(t)
                   /\ UNCHANGED <<outs, idx, handles>>
    /\ UNCHANGED <<nodes, consumer_count, tx, tx_poisoned, inbox, gradient,
                   delta, acc, calls, received>>

\* match &self.backward_op, None arm (lines 308-316).
VisitLeaf(t) ==
    /\ pc[t] = "visit"
    /\ nodes[NodeOf(t)].backward_op.kind = "None"
    /\ LET n == NodeOf(t)
       IN  /\ visits' = [visits EXCEPT ![n] = @ + 1]
           /\ IF HasChildren(nodes[n])
              THEN /\ pc' = [pc EXCEPT ![t] = Panicked(t)]
                   /\ err' = [err EXCEPT ![t] = "NotDifferentiable"]
                   /\ UNCHANGED gradient
              ELSE /\ pc' = [pc EXCEPT ![t] = Returned(t)]
                   /\ gradient' = [gradient EXCEPT ![n] = delta[t]]
                   /\ UNCHANGED err
    /\ rx_alive' = DropRx(t)
    /\ UNCHANGED <<nodes, consumer_count, tx, tx_poisoned, inbox,
                   delta, acc, outs, idx, handles, calls, received>>

\* One iteration of the loop over the deltas (lines 285-301).
Deliver(t) ==
    /\ pc[t] = "send"
    /\ LET n == NodeOf(t)
           i == idx[t]
           child == nodes[n].children[i]
           d == outs[t][i]
           next == IF i = Len(outs[t]) THEN "join" ELSE "send"
       IN  IF tx_poisoned[child]
           THEN \* tx.lock().unwrap() on a poisoned mutex
                /\ pc' = [pc EXCEPT ![t] = Panicked(t)]
                /\ err' = [err EXCEPT ![t] = "PoisonError"]
                /\ rx_alive' = DropRx(t)
                /\ UNCHANGED <<tx, tx_poisoned, inbox, delta, idx, handles, received>>
           ELSE IF TxInstalled(tx[child])
           THEN IF rx_alive[child]
                THEN \* x.send(delta) reaches the worker's queue
                     /\ inbox' = [inbox EXCEPT ![child] =
                                      Append(@, [src |-> <<n, i>>, delta |-> d])]
                     /\ idx' = [idx EXCEPT ![t] = IF next = "join" THEN 1 ELSE i + 1]
                     /\ pc' = [pc EXCEPT ![t] = next]
                     /\ UNCHANGED <<tx, tx_poisoned, rx_alive, delta, handles, err,
                                    received>>
                ELSE \* x.send(delta).unwrap() with the receiver gone
                     /\ pc' = [pc EXCEPT ![t] = Panicked(t)]
                     /\ err' = [err EXCEPT ![t] = "SendError"]
                     /\ tx_poisoned' = [tx_poisoned EXCEPT ![child] = TRUE]
                     /\ rx_alive' = DropRx(t)
                     /\ UNCHANGED <<tx, inbox, delta, idx, handles, received>>
           ELSE \* channel(), install the sender, spawn the worker
                /\ tx' = [tx EXCEPT ![child] = TRUE]
                /\ rx_alive' = [rx_alive EXCEPT ![child] = TRUE]
                /\ inbox' = [inbox EXCEPT ![child] = <<>>]
                /\ pc' = [pc EXCEPT ![t] = next, ![child] = "await"]
                /\ delta' = [delta EXCEPT ![child] = d]
                /\ received' = [received EXCEPT ![child] = {<<n, i>>}]
                /\ handles' = [handles EXCEPT ![t] = Append(@, child)]
                /\ idx' = [idx EXCEPT ![t] = IF next = "join" THEN 1 ELSE i + 1]
                /\ UNCHANGED <<tx_poisoned, err>>
    /\ UNCHANGED <<nodes, consumer_count, gradient, acc, outs, calls, visits>>

\* handle.join().unwrap() on the next handle (lines 304-306).
Join(t) ==
    /\ pc[t] = "join"
    /\ idx[t] <= Len(handles[t])
    /\ LET h == handles[t][idx[t]]
       IN  /\ JoinReady(pc[h])
           /\ IF pc[h] = "panicked"
              THEN /\ pc' = [pc EXCEPT ![t] = Panicked(t)]
                   /\ err' = [err EXCEPT ![t] = "JoinError"]
                   /\ rx_alive' = DropRx(t)
                   /\ UNCHANGED idx
              ELSE /\ idx' = [idx EXCEPT ![t] = @ + 1]
                   /\ UNCHANGED <<pc, err, rx_alive>>
    /\ UNCHANGED <<nodes, consumer_count, tx, tx_poisoned, inbox, gradient,
                   delta, acc, outs, handles, calls, ghostVars>>

\* *gradient_guard = Some(delta), and backward returns (lines 315-317).
Finish(t) ==
    /\ pc[t] = "join"
    /\ idx[t] > Len(handles[t])
    /\ gradient' = [gradient EXCEPT ![NodeOf(t)] = delta[t]]
    /\ pc' = [pc EXCEPT ![t] = Returned(t)]
    /\ rx_alive' = DropRx(t)
    /\ UNCHANGED <<nodes, consumer_count, tx, tx_poisoned, inbox,
                   delta, acc, outs, idx, handles, err, calls, ghostVars>>

\* The array that await_results hands to backward (line 261).
Accumulated(n, a) == Arr(nodes[n].dimensions, a)

\* A worker enters await_results with its first delta (lines 241-248).
Await(t) ==
    /\ t # Main
    /\ pc[t] = "await"
    /\ IF consumer_count[t] = 0
       THEN /\ pc' = [pc EXCEPT ![t] = "panicked"]
            /\ err' = [err EXCEPT ![t] = "EndNode"]
            /\ rx_alive' = [rx_alive EXCEPT ![t] = FALSE]
            /\ UNCHANGED <<consumer_count, acc, delta>>
       ELSE /\ consumer_count' = [consumer_count EXCEPT ![t] = @ - 1]
            /\ acc' = [acc EXCEPT ![t] = delta[t].values]
            /\ IF RecvCondition(consumer_count'[t])
               THEN /\ pc' = [pc EXCEPT ![t] = "recv"]
                    /\ UNCHANGED delta
               ELSE /\ pc' = [pc EXCEPT ![t] = "visit"]
                    /\ delta' = [delta EXCEPT ![t] = Accumulated(t, delta[t].values)]
            /\ UNCHANGED <<err, rx_alive>>
    /\ UNCHANGED <<nodes, tx, tx_poisoned, inbox, gradient,
                   outs, idx, handles, calls, ghostVars>>

\* One iteration of the receive loop (lines 253-257); blocks on an empty queue.
Recv(t) ==
    /\ t # Main
    /\ pc[t] = "recv"
    /\ inbox[t] # <<>>
    /\ LET m == Head(inbox[t])
           a == sum(acc[t], m.delta.values)
       IN  /\ inbox' = [inbox EXCEPT ![t] = Tail(@)]
           /\ consumer_count' = [consumer_count EXCEPT ![t] = @ - 1]
           /\ acc' = [acc EXCEPT ![t] = a]
           /\ received' = [received EXCEPT ![t] = @ \cup {m.src}]
           /\ IF RecvCondition(consumer_count'[t])
              THEN UNCHANGED <<pc, delta>>
              ELSE /\ pc' = [pc EXCEPT ![t] = "visit"]
                   /\ delta' = [delta EXCEPT ![t] = Accumulated(t, a)]
    /\ UNCHANGED <<nodes, tx, tx_poisoned, rx_alive, gradient,
                   outs, idx, handles, err, calls, visits>>

Step(t) ==
    \/ VisitOp(t)
    \/ VisitLeaf(t)
    \/ Deliver(t)
    \/ Join(t)
    \/ Finish(t)
    \/ Await(t)
    \/ Recv(t)

Next ==
    \/ Add
    \/ Mul
    \/ Matmul
    \/ WithChildren
    \/ Backward
    \/ \E t \in ThreadIds : VisitOp(t)
    \/ \E t \in ThreadIds : VisitLeaf(t)
    \/ \E t \in ThreadIds : Deliver(t)
    \/ \E t \in ThreadIds : Join(t)
    \/ \E t \in ThreadIds : Finish(t)
    \/ \E t \in ThreadIds : Await(t)
    \/ \E t \in ThreadIds : Recv(t)

Spec == Init /\ [][Next]_vars

\* ---- the operator kernels on their own ----------------------------------
\* A second specification for the kernels: two operands of any of the shapes
\* below, one operator applied to them, and the result's backward_op called
\* directly with an upstream gradient, as tests::test_backward_op does.

\* Upper bound on the length of an axis of a kernel operand.
MaxAxis == 2

\* The operand shapes: rank 1 to 3, every axis in 1..MaxAxis.
KernelShapes ==
    {s \in UNION {[1..r -> 1..MaxAxis] : r \in 1..3} :
        /\ Len(s) = 1 => s[1] = MaxAxis
        /\ Len(s) = 3 => s[1] = MaxAxis}

\* The values of the left operand (1, 2, 3, ..) and of the right operand
\* (2, 5, 10, ..).
LeftValues(k) == [i \in 1..k |-> i]
RightValues(k) == [i \in 1..k |-> i * i + 1]

KernelLeaves ==
    {<<ArraysNew(s1, LeftValues(Product(s1, 1, Len(s1)))),
       ArraysNew(s2, RightValues(Product(s2, 1, Len(s2))))>> : s1, s2 \in KernelShapes}

KernelInit ==
    /\ nodes \in KernelLeaves
    /\ Quiescent

\* The upstream gradients the backward_op of a node is called with: all ones,
\* and the node's own values.
Upstreams(node) == {OnesLike(node), Arr(node.dimensions, node.values)}

\* (*node.backward_op.unwrap())(&children, &g), called by the caller itself.
BackwardOpCall ==
    /\ pc[Main] = "idle"
    /\ outs[Main] = <<>>
    /\ \E n \in 1..Len(nodes) : \E g \in Upstreams(nodes[n]) :
          /\ nodes[n].backward_op.kind # "None"
          /\ LET res == ApplyBackwardOp(nodes[n].backward_op, ChildNodes(nodes, n), g)
             IN  /\ delta' = [delta EXCEPT ![Main] = g]
                 /\ idx' = [idx EXCEPT ![Main] = n]
                 /\ IF res.ok
                    THEN /\ outs' = [outs EXCEPT ![Main] = res.out]
                         /\ UNCHANGED <<pc, err>>
                    ELSE /\ pc' = [pc EXCEPT ![Main] = "failed"]
                         /\ err' = [err EXCEPT ![Main] = "OpPanic"]
                         /\ UNCHANGED outs
    /\ UNCHANGED <<nodes, nodeVars, acc, handles, calls, ghostVars>>

\* One operator is applied to the two operands.
KernelNext ==
    \/ Len(nodes) = 2 /\ outs[Main] = <<>> /\ Add
    \/ Len(nodes) = 2 /\ outs[Main] = <<>> /\ Mul
    \/ Len(nodes) = 2 /\ outs[Main] = <<>> /\ Matmul
    \/ BackwardOpCall

KernelSpec == KernelInit /\ [][KernelNext]_vars

\* The nodes reachable from n along child edges, n included.
RECURSIVE Reach(_, _)
Reach(ns, n) ==
    {n} \cup UNION {Reach(ns, ns[n].children[i]) : i \in 1..Len(ns[n].children)}

\* ---- array/image.rs: the tracked operators --------------------------------
\* A third specification: two rank-3 operands, each tracked or not, the
\* operators of array.rs and of array/image.rs applied to them, the closures
\* of array/image.rs called directly, and backward on what array.rs built.

\* Array::sliced_op for the closures of array/image.rs: the closure fills one
\* output slice from one input slice, for every index of the leading axes.
\* InputSlice is the b-th input slice, sliced_op the output slices in order.
InputSlice(values, b, in_size) == SubSeq(values, (b - 1) * in_size + 1, b * in_size)

sliced_op(output_slices, out_size) ==
    [o \in 1..(Len(output_slices) * out_size) |->
        output_slices[((o - 1) \div out_size) + 1][((o - 1) % out_size) + 1]]

\* row_stride_count, col_stride_count
StrideCount(len, filter, stride) == ((len - filter) \div stride) + 1

\* The closure of unroll_blocks laying a patch out by filter column first and
\* filter row second.
unroll_op_column_first(slice, depth, rows, cols, stride, filter) ==
    LET row_stride_count == StrideCount(rows, filter[1], stride[1])
        col_stride_count == StrideCount(cols, filter[2], stride[2])
    IN  [o \in 1..(row_stride_count * col_stride_count * depth * filter[1] * filter[2]) |->
            LET m == (o - 1) % filter[1]
                n == ((o - 1) \div filter[1]) % filter[2]
                k == ((o - 1) \div (filter[2] * filter[1])) % depth
                c == ((o - 1) \div (filter[2] * filter[1] * depth)) % col_stride_count
                r == (o - 1) \div (filter[2] * filter[1] * depth * col_stride_count)
                row_index == m + stride[1] * r
                col_index == n + stride[2] * c
                input_index == col_index + cols * (row_index + rows * k)
            IN  slice[input_index + 1]]

\* The SlicedOp closure of unroll_blocks (lines 36-56); output position o is
\* the o-th write of the five nested loops.
unroll_op(slice, depth, rows, cols, stride, filter) ==
    LET row_stride_count == StrideCount(rows, filter[1], stride[1])
        col_stride_count == StrideCount(cols, filter[2], stride[2])
    IN  [o \in 1..(row_stride_count * col_stride_count * depth * filter[1] * filter[2]) |->
            LET n == (o - 1) % filter[2]
                m == ((o - 1) \div filter[2]) % filter[1]
                k == ((o - 1) \div (filter[2] * filter[1])) % depth
                c == ((o - 1) \div (filter[2] * filter[1] * depth)) % col_stride_count
                r == (o - 1) \div (filter[2] * filter[1] * depth * col_stride_count)
                row_index == m + stride[1] * r
                col_index == n + stride[2] * c
                input_index == col_index + cols * (row_index + rows * k)
            IN  slice[input_index + 1]]

\* unroll_blocks without the graph: output_dimensions and the sliced_op call.
unroll_blocks_values(image, stride, filter) ==
    LET dimension_count == Len(image.dimensions)
        depth == image.dimensions[dimension_count - 2]
        rows == image.dimensions[dimension_count - 1]
        cols == image.dimensions[dimension_count]
        unrolled_count == StrideCount(rows, filter[1], stride[1])
                          * StrideCount(cols, filter[2], stride[2])
        unrolled_size == filter[1] * filter[2]
        batch == Product(image.dimensions, 1, dimension_count - 3)
    IN  Arr(Take(image.dimensions, dimension_count - 3)
                \o <<unrolled_count, depth * unrolled_size>>,
            sliced_op([b \in 1..batch |->
                          unroll_op(InputSlice(image.values, b, depth * rows * cols),
                                    depth, rows, cols, stride, filter)],
                      unrolled_count * depth * unrolled_size))

\* The loop of roll_blocks' closure (lines 118-141): the triples <<i, j, k>>,
\* the output_index each one writes and the input_index it reads.
RollTriples(depth, unrolled_count, unrolled_size) ==
    (0..(depth - 1)) \X (0..(unrolled_count - 1)) \X (0..(unrolled_size - 1))

RollOutputIndex(w, rows, cols, stride, filter) ==
    LET col_stride_count == StrideCount(cols, filter[2], stride[2])
        stride_offset == stride[2] * (w[2] % col_stride_count)
                         + cols * (w[2] \div col_stride_count)
        filter_offset == (w[3] % filter[2]) + cols * (w[3] \div filter[2])
    IN  stride_offset + filter_offset + w[1] * rows * cols

RollInputIndex(w, depth, unrolled_size, filter) ==
    w[3] + w[1] * filter[1] * filter[2] + unrolled_size * depth * w[2]

\* the position of a triple in the order in which the loop runs
RollOrder(w, unrolled_count, unrolled_size) ==
    (w[1] * unrolled_count + w[2]) * unrolled_size + w[3]

\* Every index of the loop is inside its slice.
RollInBounds(in_size, image_dimensions, stride, filter, unrolled_count, unrolled_size) ==
    \A w \in RollTriples(image_dimensions[1], unrolled_count, unrolled_size) :
        /\ RollOutputIndex(w, image_dimensions[2], image_dimensions[3], stride, filter)
               < image_dimensions[1] * image_dimensions[2] * image_dimensions[3]
        /\ RollInputIndex(w, image_dimensions[1], unrolled_size, filter) < in_size

\* The closure of roll_blocks: an output position holds what the last triple
\* that writes it has read (an assignment, not a sum), and the initial 0.0
\* where no triple writes.
roll_op(slice, image_dimensions, stride, filter, unrolled_count, unrolled_size) ==
    [p \in 1..(image_dimensions[1] * image_dimensions[2] * image_dimensions[3]) |->
        LET writes == {w \in RollTriples(image_dimensions[1], unrolled_count, unrolled_size) :
                          RollOutputIndex(w, image_dimensions[2], image_dimensions[3],
                                          stride, filter) = p - 1}
            last == CHOOSE w \in writes : \A v \in writes :
                        RollOrder(v, unrolled_count, unrolled_size)
                            <= RollOrder(w, unrolled_count, unrolled_size)
        IN  IF writes = {} THEN 0
            ELSE slice[RollInputIndex(last, image_dimensions[1], unrolled_size, filter) + 1]]

\* roll_blocks without the graph; an index outside a slice panics.
roll_blocks_values(unrolled, image_dimensions, stride, filter) ==
    LET dimension_count == Len(unrolled.dimensions)
        unrolled_count == unrolled.dimensions[dimension_count - 1]
        unrolled_size == unrolled.dimensions[dimension_count] \div image_dimensions[1]
        in_size == unrolled_count * unrolled.dimensions[dimension_count]
        batch == Product(unrolled.dimensions, 1, dimension_count - 2)
    IN  IF RollInBounds(in_size, image_dimensions, stride, filter,
                        unrolled_count, unrolled_size)
        THEN Ok(Arr(Take(unrolled.dimensions, dimension_count - 2) \o image_dimensions,
                    sliced_op([b \in 1..batch |->
                                  roll_op(InputSlice(unrolled.values, b, in_size),
                                          image_dimensions, stride, filter,
                                          unrolled_count, unrolled_size)],
                              image_dimensions[1] * image_dimensions[2]
                                  * image_dimensions[3])))
        ELSE Panic

\* expand_conv that returns its values under the dimensions it was given
expand_conv_values_same_shape(self, stride_counts) ==
    Arr(self.dimensions, self.values)

\* expand_conv without the graph (lines 174-197): result[k * skip_size + i] =
\* values[k + filter_count * i]; what the loop does not reach stays 0.0.
expand_conv_values(self, stride_counts) ==
    LET dimension_count == Len(self.dimensions)
        filter_count == self.dimensions[dimension_count]
        values_size == Len(self.values)
        skip_size == values_size \div filter_count
    IN  Arr(Take(self.dimensions, dimension_count - 2)
                \o <<filter_count, stride_counts[1], stride_counts[2]>>,
            [o \in 1..values_size |->
                IF o - 1 < filter_count * skip_size
                THEN self.values[((o - 1) \div skip_size)
                                 + filter_count * ((o - 1) % skip_size) + 1]
                ELSE 0])

\* What the backward_op closures of array/image.rs capture.
UnrollOp(image_dimensions, stride, filter) ==
    [kind |-> "unroll_blocks", image_dimensions |-> image_dimensions,
     stride_dimensions |-> stride, filter_dimensions |-> filter]

RollOp(stride, filter) ==
    [kind |-> "roll_blocks", stride_dimensions |-> stride, filter_dimensions |-> filter]

ExpandOp(values_size, filter_count) ==
    [kind |-> "expand_conv", values_size |-> values_size, filter_count |-> filter_count]

\* The result of an operator of array/image.rs on a tracked operand: the
\* closure and the operand are attached, and the result is tracked in turn.
Attach(result, op, i) ==
    tracked(with_children(with_backward_op(ArraysNew(result.dimensions, result.values),
                                           op), <<i>>))

\* Array::unroll_blocks, lines 68-86
UnrollNode(ns, i, stride, filter) ==
    LET result == unroll_blocks_values(ns[i], stride, filter)
        dimension_count == Len(ns[i].dimensions)
    IN  IF ~ns[i].is_tracked
        THEN ArraysNew(result.dimensions, result.values)
        ELSE Attach(result,
                    UnrollOp(SubSeq(ns[i].dimensions, dimension_count - 2, dimension_count),
                             stride, filter),
                    i)

\* Array::roll_blocks, lines 153-171
RollNode(ns, i, image_dimensions, stride, filter) ==
    LET res == roll_blocks_values(ns[i], image_dimensions, stride, filter)
    IN  IF ~res.ok THEN Panic
        ELSE IF ~ns[i].is_tracked
        THEN Ok(ArraysNew(res.out.dimensions, res.out.values))
        ELSE Ok(Attach(res.out, RollOp(stride, filter), i))

\* Array::expand_conv, lines 199-221
ExpandNode(ns, i, stride_counts) ==
    LET result == expand_conv_values(ns[i], stride_counts)
    IN  IF ~ns[i].is_tracked
        THEN ArraysNew(result.dimensions, result.values)
        ELSE Attach(result,
                    ExpandOp(Len(ns[i].values),
                             ns[i].dimensions[Len(ns[i].dimensions)]),
                    i)

\* The closure of unroll_blocks, lines 71-82: t holds the children's flags.
unroll_backward(op, t, x) ==
    IF t[1]
    THEN LET res == roll_blocks_values(x, op.image_dimensions, op.stride_dimensions,
                                       op.filter_dimensions)
         IN  IF res.ok THEN Ok(<<res.out>>) ELSE Panic
    ELSE Ok(<<NoArray>>)

\* The closure of roll_blocks, lines 156-166
roll_backward(op, t, x) ==
    IF t[1]
    THEN Ok(<<unroll_blocks_values(x, op.stride_dimensions, op.filter_dimensions)>>)
    ELSE Ok(<<NoArray>>)

\* The closure of expand_conv, lines 202-216: result[k + filter_count * i] =
\* x.values[delta_index]; reading past the end of x.values panics.
expand_backward(op, c, x) ==
    LET skip_size == op.values_size \div op.filter_count
    IN  IF Len(x.values) < op.filter_count * skip_size THEN Panic
        ELSE Ok(<<Arr(c[1].dimensions,
                      [o \in 1..op.values_size |->
                          IF o - 1 < op.filter_count * skip_size
                          THEN x.values[((o - 1) % op.filter_count) * skip_size
                                        + ((o - 1) \div op.filter_count) + 1]
                          ELSE 0])>>)

\* (*backward_op)(&children, &tracked, &x) for a closure of array/image.rs
ApplyImageBackwardOp(op, c, t, x) ==
    CASE op.kind = "unroll_blocks" -> unroll_backward(op, t, x)
      [] op.kind = "roll_blocks" -> roll_backward(op, t, x)
      [] op.kind = "expand_conv" -> expand_backward(op, c, x)
      [] OTHER -> Panic

ImageKinds == {"unroll_blocks", "roll_blocks", "expand_conv"}

\* The strides and filter sizes passed, and the image_dimensions roll_blocks
\* is told to restore.
Pairs == (1..MaxAxis) \X (1..MaxAxis)
ImageDimensions == (1..MaxAxis) \X (1..MaxAxis) \X (1..MaxAxis)

\* The array holds one value for every index of its dimensions.
Filled(node) == Len(node.values) = Product(node.dimensions, 1, Len(node.dimensions))

\* unroll_blocks on a filled array of rank 3 or more with a filter that fits
\* in it.
UnrollBlocksCall(i, stride, filter) ==
    /\ Len(nodes[i].dimensions) >= 3
    /\ Filled(nodes[i])
    /\ filter[1] <= nodes[i].dimensions[Len(nodes[i].dimensions) - 1]
    /\ filter[2] <= nodes[i].dimensions[Len(nodes[i].dimensions)]
    /\ Construct(UnrollNode(nodes, i, stride, filter))

UnrollBlocks ==
    \E i \in 1..Len(nodes), stride, filter \in Pairs : UnrollBlocksCall(i, stride, filter)

\* roll_blocks on a filled array of rank 2 or more; an index outside a slice
\* panics in the caller.
RollBlocksCall(i, image_dimensions, stride, filter) ==
    /\ pc[Main] = "idle"
    /\ Len(nodes) < MaxNodes
    /\ Len(nodes[i].dimensions) >= 2
    /\ Filled(nodes[i])
    /\ filter[2] <= image_dimensions[3]
    /\ LET res == RollNode(nodes, i, image_dimensions, stride, filter)
       IN  IF res.ok
           THEN Construct(res.out)
           ELSE /\ pc' = [pc EXCEPT ![Main] = "failed"]
                /\ err' = [err EXCEPT ![Main] = "InvalidIndex"]
                /\ UNCHANGED <<nodes, nodeVars, delta, acc, outs, idx, handles,
                               calls, ghostVars>>

RollBlocks ==
    \E i \in 1..Len(nodes), image_dimensions \in ImageDimensions, stride, filter \in Pairs :
        RollBlocksCall(i, image_dimensions, stride, filter)

\* expand_conv on an array of rank 2 or more.
ExpandConvCall(i, stride_counts) ==
    /\ Len(nodes[i].dimensions) >= 2
    /\ Construct(ExpandNode(nodes, i, stride_counts))

ExpandConv ==
    \E i \in 1..Len(nodes), stride_counts \in Pairs : ExpandConvCall(i, stride_counts)

\* A closure of array/image.rs called by the caller itself, with the flags
\* the caller passes for the children.
ImageBackwardOpCall ==
    /\ pc[Main] = "idle"
    /\ outs[Main] = <<>>
    /\ \E n \in 1..Len(nodes), flag \in BOOLEAN : \E g \in Upstreams(nodes[n]) :
          /\ nodes[n].backward_op.kind \in ImageKinds
          /\ LET res == ApplyImageBackwardOp(nodes[n].backward_op, ChildNodes(nodes, n),
                                             <<flag>>, g)
             IN  /\ delta' = [delta EXCEPT ![Main] = g]
                 /\ idx' = [idx EXCEPT ![Main] = n]
                 /\ IF res.ok
                    THEN /\ outs' = [outs EXCEPT ![Main] = res.out]
                         /\ UNCHANGED <<pc, err>>
                    ELSE /\ pc' = [pc EXCEPT ![Main] = "failed"]
                         /\ err' = [err EXCEPT ![Main] = "OpPanic"]
                         /\ UNCHANGED outs
    /\ UNCHANGED <<nodes, nodeVars, acc, handles, calls, ghostVars>>

\* The operands: arr![arr![arr![1.0, 2.0], arr![3.0, 4.0]]] and
\* arr![arr![arr![2.0, 5.0], arr![10.0, 17.0]]], each with or without
\* .tracked().
TrackedOrNot(node) == {node, tracked(node)}

TrackLeaves ==
    TrackedOrNot(ArraysNewNested(<<ArraysNewNested(<<ArraysNewFlat(<<1, 2>>),
                                                     ArraysNewFlat(<<3, 4>>)>>)>>))
    \X TrackedOrNot(ArraysNewNested(<<ArraysNewNested(<<ArraysNewFlat(<<2, 5>>),
                                                        ArraysNewFlat(<<10, 17>>)>>)>>))

TrackInit ==
    /\ nodes \in TrackLeaves
    /\ Quiescent

\* The graph under r was built by the operators of array.rs alone, whose
\* closures are the ones the backward of array.rs can call.
ArrayGraph(ns, r) ==
    \A n \in Reach(ns, r) : ns[n].backward_op.kind \notin ImageKinds

\* One operator is applied to the two operands; then a closure of
\* array/image.rs is called, or backward runs.
TrackNext ==
    \/ Len(nodes) = 2 /\ Add
    \/ Len(nodes) = 2 /\ Mul
    \/ Len(nodes) = 2 /\ Matmul
    \/ Len(nodes) = 2 /\ UnrollBlocks
    \/ Len(nodes) = 2 /\ RollBlocks
    \/ Len(nodes) = 2 /\ ExpandConv
    \/ calls = <<>> /\ ImageBackwardOpCall
    \/ outs[Main] = <<>> /\ Backward /\ ArrayGraph(nodes, Root')
    \/ \E t \in ThreadIds : Step(t)

TrackSpec == TrackInit /\ [][TrackNext]_vars

\* ---- array/image.rs: conv --------------------------------------------------
\* A fourth specification: an image and filters of rank 0 to 4, neither of
\* them tracked, and conv or unroll_blocks applied to them.

ConvFailed(e) == [ok |-> FALSE, out |-> <<>>, err |-> e]
ConvReturned(v) == [ok |-> TRUE, out |-> v, err |-> "None"]

\* the sum of a sequence of numbers
RECURSIVE SeqSum(_)
SeqSum(s) == IF s = <<>> THEN 0 ELSE Head(s) + SeqSum(Tail(s))

\* Array::reshape, of which array/image.rs holds a call only: the same values
\* under other dimensions, which must hold as many elements.
reshape(a, dimensions) ==
    IF Product(dimensions, 1, Len(dimensions)) = Len(a.values)
    THEN ConvReturned(Arr(dimensions, a.values))
    ELSE ConvFailed("ShapeMismatch")

\* Array::matmul((&a, false), (&b, true), None), the three-argument matmul
\* that conv calls: a is a stack of (rows, inner) matrices, b one (cols, inner)
\* matrix, or one row of length inner, that is multiplied with every matrix of
\* the stack; the inner dimensions must agree.
matmul_transposed(a, b) ==
    LET ra == Len(a.dimensions)
        rb == Len(b.dimensions)
        rows == a.dimensions[ra - 1]
        inner == a.dimensions[ra]
        cols == IF rb < 2 THEN 1 ELSE b.dimensions[rb - 1]
        batch == Product(a.dimensions, 1, ra - 2)
    IN  IF b.dimensions[rb] # inner THEN ConvFailed("DimMismatch")
        ELSE ConvReturned(
                Arr(Take(a.dimensions, ra - 2) \o <<rows, cols>>,
                    [o \in 1..(batch * rows * cols) |->
                        LET s == (o - 1) \div (rows * cols)
                            r == ((o - 1) \div cols) % rows
                            c == (o - 1) % cols
                        IN  SeqSum([x \in 1..inner |->
                                       a.values[(s * rows + r) * inner + x]
                                       * b.values[c * inner + x]])]))

\* The guard of conv, lines 230-232.
ConvRankCheck(image, filters) ==
    Len(image.dimensions) < 3 \/ Len(filters.dimensions) < 3

\* What `dimension_count - 1` (line 228, ahead of the guard) does for an
\* image without dimensions: a build with overflow checks panics, a build
\* without them wraps around and goes on.
Builds == {"overflow-checks", "wrapping"}

\* Array::conv for operands that are not tracked, lines 225-271.
conv(image, filters, stride, build) ==
    LET dimension_count == Len(image.dimensions)
        filter_dimension_count == Len(filters.dimensions)
    IN  IF dimension_count = 0 /\ build = "overflow-checks" THEN ConvFailed("Overflow")
        ELSE IF ConvRankCheck(image, filters) THEN ConvFailed("ConvRank")
        ELSE IF dimension_count < 3 \/ filter_dimension_count < 2
        THEN ConvFailed("IndexOutOfBounds")
        ELSE
        LET image_depth == image.dimensions[dimension_count - 2]
            image_rows == image.dimensions[dimension_count - 1]
            image_cols == image.dimensions[dimension_count]
            filter_rows == filters.dimensions[filter_dimension_count - 1]
            filter_cols == filters.dimensions[filter_dimension_count]
        IN  IF stride[1] = 0 \/ stride[2] = 0 THEN ConvFailed("DivideByZero")
            ELSE
            LET row_stride_count == StrideCount(image_rows, filter_rows, stride[1])
                col_stride_count == StrideCount(image_cols, filter_cols, stride[2])
                unrolled == unroll_blocks_values(image, stride, <<filter_rows, filter_cols>>)
                unrolled_size == unrolled.dimensions[dimension_count - 1] \div image_depth
                filter_matrix ==
                    reshape(filters,
                            Take(filters.dimensions, Max(filter_dimension_count - 3, 0))
                                \o <<unrolled_size * image_depth>>)
                convolved == matmul_transposed(unrolled, filter_matrix.out)
            IN  IF ~filter_matrix.ok THEN filter_matrix
                ELSE IF ~convolved.ok THEN convolved
                ELSE ConvReturned(expand_conv_values(convolved.out,
                                                     <<row_stride_count, col_stride_count>>))

\* The shapes of the image and of the filters: rank 0 to 4, every axis in
\* 1..MaxAxis, the leading axis of a rank-4 shape being MaxAxis.
ConvShapes ==
    {s \in UNION {[1..r -> 1..MaxAxis] : r \in 0..4} : Len(s) = 4 => s[1] = MaxAxis}

ConvLeaves ==
    {<<ArraysNew(s1, LeftValues(Product(s1, 1, Len(s1)))),
       ArraysNew(s2, RightValues(Product(s2, 1, Len(s2))))>> : s1, s2 \in ConvShapes}

ConvInit ==
    /\ nodes \in ConvLeaves
    /\ Quiescent

\* The strides passed to conv; a stride of 0 divides by zero.
Strides == (0..MaxAxis) \X (0..MaxAxis)

\* The operands pass the guard of conv, and the filter fits in the image.
FilterFits(image, filters) ==
    /\ ~ConvRankCheck(image, filters)
    /\ filters.dimensions[Len(filters.dimensions) - 1]
           <= image.dimensions[Len(image.dimensions) - 1]
    /\ filters.dimensions[Len(filters.dimensions)]
           <= image.dimensions[Len(image.dimensions)]

\* nodes[1].conv(&nodes[2], stride), for operands the guard rejects and for
\* operands whose filter fits in the image; a panic is a panic of the caller.
ConvCall(stride, build) ==
    /\ pc[Main] = "idle"
    /\ Len(nodes) < MaxNodes
    /\ ConvRankCheck(nodes[1], nodes[2]) \/ FilterFits(nodes[1], nodes[2])
    /\ LET res == conv(nodes[1], nodes[2], stride, build)
       IN  IF res.ok
           THEN Construct(ArraysNew(res.out.dimensions, res.out.values))
           ELSE /\ pc' = [pc EXCEPT ![Main] = "failed"]
                /\ err' = [err EXCEPT ![Main] = res.err]
                /\ UNCHANGED <<nodes, nodeVars, delta, acc, outs, idx, handles,
                               calls, ghostVars>>

Conv == \E stride \in Strides, build \in Builds : ConvCall(stride, build)

ConvNext ==
    \/ Len(nodes) = 2 /\ Conv
    \/ Len(nodes) = 2 /\ UnrollBlocks

ConvSpec == ConvInit /\ [][ConvNext]_vars

\* ---- array.rs: nested construction and indexing ----------------------------
\* A fifth specification: two arrays of rank 0 to 2 and the arrays nested
\* from the arrays at hand (arr![x, y, ..]).  A sixth one: two arrays of rank
\* 0 to 3 and one read through Index<usize> or Index<Vec<usize>>.

\* ---- array/image.rs: unroll_blocks and roll_blocks back ---------------------
\* A further specification: one image of rank 3 with rows and columns up to
\* MaxSide is unrolled, and the result is rolled back to the image's
\* dimensions, as tests::test_rolling, test_rolling_rect and
\* test_rolling_strided do.

\* Upper bound on the rows and on the columns of an image that is rolled back.
MaxSide == 4

Iota(k) == [j \in 1..k |-> j]

RollShapes == (1..MaxAxis) \X (1..MaxSide) \X (1..MaxSide)

RollLeaves == {<<ArraysNew(s, Iota(s[1] * s[2] * s[3]))>> : s \in RollShapes}

RollInit ==
    /\ nodes \in RollLeaves
    /\ Quiescent

RollUnroll ==
    /\ Len(nodes) = 1
    /\ \E stride, filter \in Pairs : UnrollBlocksCall(1, stride, filter)

RollBack ==
    /\ Len(nodes) = 2
    /\ \E stride, filter \in Pairs :
          RollBlocksCall(2, nodes[1].dimensions, stride, filter)

RollNext ==
    \/ RollUnroll
    \/ RollBack

RollSpec == RollInit /\ [][RollNext]_vars

\* ---- array/image.rs: expand_conv and backward through it -------------------
\* A further specification: one array of shape (n, F) or (batch, n, F),
\* tracked or not, is expanded, and backward is called on the result with
\* the result itself as the seed, as tests::test_expand_conv does.

ExpandShapes ==
    ((1..MaxSide) \X (1..MaxAxis)) \cup ((1..MaxAxis) \X (1..MaxSide) \X (1..MaxAxis))

ExpandLeaves ==
    UNION {{<<node>> : node \in TrackedOrNot(ArraysNew(s, Iota(Product(s, 1, Len(s)))))} :
              s \in ExpandShapes}

ExpandInit ==
    /\ nodes \in ExpandLeaves
    /\ Quiescent

\* expanded.backward(Some(expanded.clone())): the Some arm of backward
\* (array.rs 271-272) takes the seed as the delta and leaves phase 1 out.
BackwardSelf ==
    /\ pc[Main] = "idle"
    /\ Len(calls) < MaxCalls
    /\ Len(nodes) = 2
    /\ calls' = Append(calls, [root |-> 2, seed |-> "Self"])
    /\ delta' = [delta EXCEPT ![Main] = Arr(nodes[2].dimensions, nodes[2].values)]
    /\ pc' = [pc EXCEPT ![Main] = "visit"]
    /\ handles' = [handles EXCEPT ![Main] = <<>>]
    /\ received' = [n \in NodeIds |-> {}]
    /\ visits' = [n \in NodeIds |-> 0]
    /\ UNCHANGED <<nodes, consumer_count, tx, tx_poisoned, rx_alive, inbox, gradient,
                   acc, outs, idx, err>>

\* The flags a closure of array/image.rs is handed for the children.
ChildFlags(ns, n) == [i \in 1..Len(ns[n].children) |-> ns[ns[n].children[i]].is_tracked]

\* The Some arm of the match on backward_op (array.rs 280-283) for a closure
\* of array/image.rs.
ImageVisitOp(t) ==
    /\ pc[t] = "visit"
    /\ nodes[NodeOf(t)].backward_op.kind \in ImageKinds
    /\ LET n == NodeOf(t)
           res == ApplyImageBackwardOp(nodes[n].backward_op, ChildNodes(nodes, n),
                                       ChildFlags(nodes, n), delta[t])
       IN  /\ visits' = [visits EXCEPT ![n] = @ + 1]
           /\ IF res.ok
              THEN /\ outs' = [outs EXCEPT ![t] = res.out]
                   /\ idx' = [idx EXCEPT ![t] = 1]
                   /\ handles' = [handles EXCEPT ![t] = <<>>]
                   /\ pc' = [pc EXCEPT ![t] = IF Len(res.out) = 0 THEN "join" ELSE "send"]
                   /\ UNCHANGED <<err, rx_alive>>
              ELSE /\ pc' = [pc EXCEPT ![t] = Panicked(t)]
                   /\ err' = [err EXCEPT ![t] = "OpPanic"]
                   /\ rx_alive' = DropRx(t)
                   /\ UNCHANGED <<outs, idx, handles>>
    /\ UNCHANGED <<nodes, consumer_count, tx, tx_poisoned, inbox, gradient,
                   delta, acc, calls, received>>

\* An array of this specification has one parent at most, so no worker
\* enters the receive loop.
ExpandNext ==
    \/ Len(nodes) = 1 /\ ExpandConv
    \/ BackwardSelf
    \/ Len(nodes) = 2 /\ Backward
    \/ \E t \in ThreadIds : ImageVisitOp(t)
    \/ \E t \in ThreadIds : VisitLeaf(t)
    \/ \E t \in ThreadIds : Deliver(t)
    \/ \E t \in ThreadIds : Join(t)
    \/ \E t \in ThreadIds : Finish(t)
    \/ \E t \in ThreadIds : Await(t)

ExpandSpec == ExpandInit /\ [][ExpandNext]_vars

\* Upper bound on the number of elements of a nested construction.
MaxElems == 3

PanicWith(e) == [ok |-> FALSE, out |-> <<>>, err |-> e]

\* is_dimensions_valid that compares the number of dimensions only
is_dimensions_valid_rank_only(elems) ==
    \A k \in 2..Len(elems) : Len(elems[k].dimensions) = Len(elems[1].dimensions)

\* is_dimensions_valid, lines 29-32
is_dimensions_valid(elems) ==
    \A k \in 2..Len(elems) : elems[k].dimensions = elems[1].dimensions

\* try_unwrap that gives up the values of an element with another holder
try_unwrap_or_clone_drop_shared(values, shared) ==
    IF shared THEN <<>> ELSE values

\* Arc::try_unwrap(array.values).unwrap_or_else(|x| (*x).clone()), line 42: the
\* vector itself when the element is its only holder, a copy of it otherwise.
try_unwrap_or_clone(values, shared) ==
    IF shared THEN [p \in 1..Len(values) |-> values[p]] ELSE values

\* impl Arrays for Vec<Array>, lines 25-47, with its check; shared[k] tells
\* whether the values of element k have another holder.
ArraysNewVec(elems, shared) ==
    IF ~is_dimensions_valid(elems) THEN PanicWith("ShapeMismatch")
    ELSE IF elems = <<>> THEN PanicWith("UnwrapNone")
    ELSE Ok(ArraysNewNested([k \in 1..Len(elems) |->
                [dimensions |-> elems[k].dimensions,
                 values |-> try_unwrap_or_clone(elems[k].values, shared[k])]]))

\* impl Index<usize> for Array, lines 351-361
index_usize(node, index) ==
    IF index >= Len(node.values) THEN PanicWith("InvalidIndex")
    ELSE Ok(node.values[index + 1])

\* impl Index<Vec<usize>> for Array, lines 363-376: the check zips the indices
\* with the dimensions; first() of no indices is None, and the flattened
\* position may lie outside the values.
index_vec(node, indices) ==
    LET is_indices_valid ==
            /\ Len(indices) = Len(node.dimensions)
            /\ \A p \in 1..Min(Len(indices), Len(node.dimensions)) :
                   ~(indices[p] >= node.dimensions[p])
    IN  IF ~is_indices_valid THEN PanicWith("InvalidIndex")
        ELSE IF indices = <<>> THEN PanicWith("UnwrapNone")
        ELSE IF flatten_indices_unchecked(indices, node.dimensions) >= Len(node.values)
        THEN PanicWith("IndexOutOfBounds")
        ELSE Ok(node.values[flatten_indices_unchecked(indices, node.dimensions) + 1])

\* The shapes of the arrays nested: rank 0 to 2, every axis in 1..MaxAxis.
NestShapes == UNION {[1..r -> 1..MaxAxis] : r \in 0..2}

NestLeaves ==
    {<<ArraysNew(s1, LeftValues(Product(s1, 1, Len(s1)))),
       ArraysNew(s2, RightValues(Product(s2, 1, Len(s2))))>> : s1, s2 \in NestShapes}

NestInit ==
    /\ nodes \in NestLeaves
    /\ Quiescent

\* The element lists of a nested construction: up to MaxElems of the arrays
\* at hand, each a clone (shared values) or the array itself.
ElemLists == UNION {[1..k -> 1..Len(nodes)] : k \in 0..MaxElems}

\* Arrays::new(vec![..]) of the arrays elems; a panic is a panic of the caller.
NestedCall(elems, shared) ==
    /\ pc[Main] = "idle"
    /\ Len(nodes) < MaxNodes
    /\ LET res == ArraysNewVec([k \in 1..Len(elems) |-> nodes[elems[k]]], shared)
       IN  IF res.ok
           THEN Construct(res.out)
           ELSE /\ pc' = [pc EXCEPT ![Main] = "failed"]
                /\ err' = [err EXCEPT ![Main] = res.err]
                /\ UNCHANGED <<nodes, nodeVars, delta, acc, outs, idx, handles,
                               calls, ghostVars>>

Nested ==
    \E elems \in ElemLists : \E shared \in [1..Len(elems) -> BOOLEAN] :
        NestedCall(elems, shared)

NestSpec == NestInit /\ [][Nested]_vars

\* The shapes of the arrays read: rank 0 to 3, every axis in 1..MaxAxis.
AccessShapes == UNION {[1..r -> 1..MaxAxis] : r \in 0..3}

AccessLeaves ==
    {<<ArraysNew(s1, LeftValues(Product(s1, 1, Len(s1)))),
       ArraysNew(s2, RightValues(Product(s2, 1, Len(s2))))>> : s1, s2 \in AccessShapes}

AccessInit ==
    /\ nodes \in AccessLeaves
    /\ Quiescent

\* What a read leaves with the caller: the element in outs, or the panic.
ReadResult(res) ==
    /\ IF res.ok
       THEN outs' = [outs EXCEPT ![Main] = <<res.out>>] /\ UNCHANGED <<pc, err>>
       ELSE /\ pc' = [pc EXCEPT ![Main] = "failed"]
            /\ err' = [err EXCEPT ![Main] = res.err]
            /\ UNCHANGED outs
    /\ UNCHANGED <<nodes, nodeVars, delta, acc, idx, handles, calls, ghostVars>>

\* nodes[n][index]
IndexFlatCall(n, index) ==
    /\ pc[Main] = "idle"
    /\ outs[Main] = <<>>
    /\ ReadResult(index_usize(nodes[n], index))

\* nodes[n][indices]
IndexVecCall(n, indices) ==
    /\ pc[Main] = "idle"
    /\ outs[Main] = <<>>
    /\ ReadResult(index_vec(nodes[n], indices))

\* The indices read with: every position and the two behind the last one;
\* every coordinate vector of up to one coordinate more than the rank, with
\* coordinates up to MaxAxis.
FlatIndices(node) == 0..(Len(node.values) + 1)
Coordinates(node) ==
    UNION {[1..r -> 0..MaxAxis] : r \in 0..(Len(node.dimensions) + 1)}

IndexFlat ==
    \E n \in 1..Len(nodes) : \E index \in FlatIndices(nodes[n]) : IndexFlatCall(n, index)

IndexVec ==
    \E n \in 1..Len(nodes) : \E indices \in Coordinates(nodes[n]) : IndexVecCall(n, indices)

AccessNext ==
    \/ IndexFlat
    \/ IndexVec

AccessSpec == AccessInit /\ [][AccessNext]_vars

\* ---- graph notions used by the properties --------------------------------

\* The parent->child edges <<parent, slot>> into c from the graph under r.
InEdges(ns, r, c) ==
    {e \in Reach(ns, r) \X (1..2) :
        /\ e[2] <= Len(ns[e[1]].children)
        /\ ns[e[1]].children[e[2]] = c}

\* Every node with children under r carries a backward_op.
Differentiable(ns, r) ==
    \A n \in Reach(ns, r) : HasChildren(ns[n]) => ns[n].backward_op.kind # "None"

\* The operands of every operator under r have the shapes the operator is
\* defined for: equal shapes for add and mul; for matmul equal batch axes and
\* an inner dimension of the left operand (sum_len of matmul_values) equal to
\* the row count of the right operand as matmul_flat indexes it.
InnerA(a, at) ==
    LET la == Len(a.dimensions)
    IN  IF la < 2 /\ at THEN 1
        ELSE a.dimensions[IF at THEN la - 1 ELSE la]

InnerB(b, bt) ==
    LET lb == Len(b.dimensions)
    IN  IF lb < 2 THEN b.dimensions[1]
        ELSE b.dimensions[IF bt THEN lb ELSE lb - 1]

WellShapedNode(ns, n) ==
    LET op == ns[n].backward_op
        a == ns[ns[n].children[1]]
        b == ns[ns[n].children[2]]
    IN  CASE op.kind \in {"add", "mul"} -> a.dimensions = b.dimensions
          [] op.kind = "matmul" ->
                /\ InnerA(a, op.a_transpose) = InnerB(b, op.b_transpose)
                /\ Take(a.dimensions, Len(a.dimensions) - 2)
                      = Take(b.dimensions, Len(b.dimensions) - 2)
          [] OTHER -> TRUE

WellShaped(ns, r) == \A n \in Reach(ns, r) : WellShapedNode(ns, n)

Called == calls # <<>>
Seed == calls[Len(calls)].seed
\* The caller's last backward call has returned normally.
ReturnedFromCall == Called /\ pc[Main] = "idle"
\* A backward call is in progress.
InCall == Called /\ pc[Main] \notin {"idle", "failed"}
\* The caller's last backward call has panicked (a panic of a forward matmul
\* is not a failure of backward).
CallFailed == Called /\ pc[Main] = "failed" /\ err[Main] # "InvalidIndex"
Workers == 1..MaxNodes

\* Sequential reference of the backward pass: the nodes under r are swept in
\* descending arena order (parents before children); pend holds what a node
\* has been sent so far.
RECURSIVE Contribute(_, _, _, _, _)
Contribute(ns, n, o, pend, i) ==
    IF i > Len(o) THEN pend
    ELSE LET c == ns[n].children[i]
             p1 == IF pend[c].has
                   THEN [pend EXCEPT ![c].v = sum(@, o[i].values)]
                   ELSE [pend EXCEPT ![c] = [has |-> TRUE, v |-> o[i].values]]
         IN  Contribute(ns, n, o, p1, i + 1)

RECURSIVE RefSweep(_, _, _, _, _, _)
RefSweep(ns, r, seed, n, g, pend) ==
    IF n = 0 THEN g
    ELSE IF n # r /\ ~pend[n].has THEN RefSweep(ns, r, seed, n - 1, g, pend)
    ELSE LET d == IF n = r THEN seed ELSE Arr(ns[n].dimensions, pend[n].v)
             res == ApplyBackwardOp(ns[n].backward_op, ChildNodes(ns, n), d)
         IN  IF ns[n].backward_op.kind = "None"
             THEN IF HasChildren(ns[n]) THEN g
                  ELSE RefSweep(ns, r, seed, n - 1, [g EXCEPT ![n] = d], pend)
             ELSE IF ~res.ok THEN g
                  ELSE RefSweep(ns, r, seed, n - 1, [g EXCEPT ![n] = d],
                                Contribute(ns, n, res.out, pend, 1))

RefGrad(ns, r, seed) ==
    RefSweep(ns, r, seed, r, [n \in 1..Len(ns) |-> NoArray],
             [n \in 1..Len(ns) |-> [has |-> FALSE, v |-> <<>>]])

\* The element-wise sum of the contributions along a set of edges, each being
\* the parent's backward_op result for that slot applied to the parent's
\* stored gradient.
EdgeContribution(e) ==
    ApplyBackwardOp(nodes[e[1]].backward_op, ChildNodes(nodes, e[1]),
                    gradient[e[1]]).out[e[2]].values

RECURSIVE EdgeSum(_, _)
EdgeSum(edges, k) ==
    IF edges = {} THEN 0
    ELSE LET e == CHOOSE x \in edges : TRUE
         IN  EdgeContribution(e)[k] + EdgeSum(edges \ {e}, k)

\* ---- C1 -------------------------------------------------------------------
\* C1: during one backward(None) call every node is visited at most once, and
\* a non-root node is visited only after its worker has taken exactly one
\* contribution for every parent->child edge into it from the graph under
\* the root.
C1_VisitedOnceAfterAllContributions ==
    (Called /\ Seed = "None") =>
        \A n \in 1..Len(nodes) :
            /\ visits[n] <= 1
            /\ (n # Root /\ (visits[n] = 1 \/ pc[n] = "visit"))
                   => received[n] = InEdges(nodes, Root, n)

\* A node with two incoming edges has been visited.
C1_Witness ==
    /\ Called /\ Seed = "None"
    /\ \E n \in 1..Len(nodes) :
          n # Root /\ visits[n] = 1 /\ Cardinality(received[n]) >= 2

\* ---- C2 -------------------------------------------------------------------
\* C2: in a backward(None) call on a graph built from add, mul and matmul, as
\* long as no thread has panicked, the call never reaches a state in which it
\* has not returned and no thread can take a step (a worker blocked on its
\* inbox for ever).
ThreadStep == \E t \in ThreadIds : Step(t)

C2_BackwardNeverBlocks ==
    (/\ Len(calls) = 1 /\ Seed = "None"
     /\ Differentiable(nodes, Root) /\ WellShaped(nodes, Root)
     /\ InCall
     /\ \A t \in ThreadIds : err[t] = "None") =>
        ENABLED ThreadStep

\* ---- C3 -------------------------------------------------------------------
\* C3: after backward(None) has returned, the gradient of every non-root node
\* under the root has the node's dimensions and is the element-wise sum of
\* one contribution per incoming edge, each computed by the parent's
\* backward_op from the parent's final gradient.
C3_GradientIsSumOverEdges ==
    (ReturnedFromCall /\ Seed = "None" /\ WellShaped(nodes, Root)) =>
        \A c \in Reach(nodes, Root) \ {Root} :
            LET edges == InEdges(nodes, Root, c)
                e0 == CHOOSE x \in edges : TRUE
            IN  /\ edges # {}
                /\ ~gradient[c].none
                /\ gradient[c].dimensions = nodes[c].dimensions
                /\ \A e \in edges :
                      Len(EdgeContribution(e)) = Len(gradient[c].values)
                /\ \A k \in 1..Len(gradient[c].values) :
                      gradient[c].values[k] = EdgeSum(edges, k)

\* ---- C4 -------------------------------------------------------------------
\* C4: whatever the interleaving of the workers and the arrival order in the
\* inboxes, the gradients stored when backward returns are the ones the
\* sequential sweep of the same graph with the same seed computes.
C4_GradientIndependentOfInterleaving ==
    (ReturnedFromCall /\ WellShaped(nodes, Root)) =>
        LET ref == RefGrad(nodes, Root, SeedArray(Seed, nodes[Root]))
        IN  \A n \in Reach(nodes, Root) : gradient[n] = ref[n]

\* ---- C5 -------------------------------------------------------------------
\* C5: a visit that has returned has no worker it started still running, and
\* when the outermost backward has returned no worker runs and every node
\* under the root has its gradient set.
C5_StructuredConcurrency ==
    /\ \A t \in ThreadIds :
          (pc[t] = Returned(t) /\ (t = Main => Called)) =>
              \A k \in 1..Len(handles[t]) : pc[handles[t][k]] = "done"
    /\ ReturnedFromCall =>
          /\ \A t \in Workers : pc[t] \in {"none", "done"}
          /\ \A n \in Reach(nodes, Root) : ~gradient[n].none

\* The outermost call has returned from a graph of depth two.
C5_Witness ==
    /\ ReturnedFromCall
    /\ \E t \in Workers : pc[t] = "done" /\ Len(handles[t]) > 0
    /\ Len(handles[Main]) > 0

\* ---- C6 -------------------------------------------------------------------
\* C6: backward(Some(ones of the root's shape)) completes, and leaves the
\* gradients of backward(None) in every node under the root.
C6_SeedIdentity ==
    (/\ Len(calls) = 1 /\ Seed = "Ones"
     /\ Differentiable(nodes, Root) /\ WellShaped(nodes, Root)) =>
        /\ ~CallFailed
        /\ (pc[Main] = "idle" =>
               \A n \in Reach(nodes, Root) :
                   gradient[n] = RefGrad(nodes, Root, OnesLike(nodes[Root]))[n])

\* ---- C7 -------------------------------------------------------------------
\* C7: after a first backward(None) has returned, backward(None) on a second
\* graph that shares only leaves with the first one completes and stores the
\* second graph's gradients.
FreshSecondGraph ==
    /\ Len(calls) = 2
    /\ calls[1].seed = "None" /\ calls[2].seed = "None"
    /\ Differentiable(nodes, calls[1].root) /\ Differentiable(nodes, calls[2].root)
    /\ WellShaped(nodes, calls[1].root) /\ WellShaped(nodes, calls[2].root)
    /\ \A n \in Reach(nodes, calls[1].root) \cap Reach(nodes, calls[2].root) :
          ~HasChildren(nodes[n])

C7_GradientOfMostRecentBackward ==
    FreshSecondGraph =>
        /\ ~CallFailed
        /\ (pc[Main] = "idle" =>
               \A n \in Reach(nodes, Root) :
                   gradient[n] = RefGrad(nodes, Root, OnesLike(nodes[Root]))[n])

\* ---- C8 -------------------------------------------------------------------
\* C8: backward(Some(seed)) with a seed of another shape than the root fails
\* and writes no gradient.
C8_BadSeedRejected ==
    (Len(calls) = 1 /\ Seed = "BadShape") =>
        /\ pc[Main] # "idle"
        /\ \A n \in NodeIds : gradient[n].none

\* ---- C9 -------------------------------------------------------------------
\* C9: the visit of a node with children and no backward_op panics as not
\* differentiable and writes no gradient, and the outermost call then never
\* returns normally; the visit of a node with neither children nor
\* backward_op returns without error and stores the delta as its gradient.
C9_VisitWithoutBackwardOp ==
    \A t \in ThreadIds :
        (/\ pc[t] = "visit"
         /\ pc'[t] # "visit"
         /\ nodes[NodeOf(t)].backward_op.kind = "None") =>
            IF Len(nodes[NodeOf(t)].children) >= 1
            THEN /\ pc'[t] = Panicked(t)
                 /\ err'[t] = "NotDifferentiable"
                 /\ gradient' = gradient
            ELSE /\ pc'[t] = Returned(t)
                 /\ err'[t] = err[t]
                 /\ gradient'[NodeOf(t)] = delta[t]

C9_NotDifferentiable ==
    /\ [][C9_VisitWithoutBackwardOp]_vars
    /\ []((\E t \in ThreadIds : err[t] = "NotDifferentiable") => pc[Main] # "idle")

\* One worker has panicked on a node without backward_op, another has
\* visited a leaf.
C9_Witness ==
    /\ \E t \in Workers : err[t] = "NotDifferentiable" /\ HasChildren(nodes[t])
    /\ \E n \in 1..Len(nodes) :
          /\ ~HasChildren(nodes[n])
          /\ visits[n] = 1
          /\ ~gradient[n].none

\* ---- C10 ------------------------------------------------------------------
\* C10: when a backward(None) call fails, every worker has terminated by the
\* time the caller sees the error, and no worker failed before decrementing
\* its consumer_count.
C10_FailureJoinsAllWorkers ==
    (Len(calls) = 1 /\ Seed = "None" /\ WellShaped(nodes, Root) /\ CallFailed) =>
        \A t \in Workers :
            /\ pc[t] \in {"none", "done", "panicked"}
            /\ err[t] # "EndNode"

\* ---- C11 ------------------------------------------------------------------
\* C11: after backward(None) has returned on a graph of operators applied to
\* operands of the shapes they are defined for, the gradient of every node
\* under the root has the node's dimensions and as many values as the node.
C11_GradientShape ==
    (ReturnedFromCall /\ Seed = "None" /\ WellShaped(nodes, Root)) =>
        \A n \in Reach(nodes, Root) :
            /\ ~gradient[n].none
            /\ gradient[n].dimensions = nodes[n].dimensions
            /\ Len(gradient[n].values) = Len(nodes[n].values)

\* ---- C12 ------------------------------------------------------------------
\* The values of g multiplied by k, and the Hadamard product of two vectors
\* of the same length.
Scaled(g, k) == [i \in 1..Len(g) |-> k * g[i]]
Hadamard(u, v) == [i \in 1..Len(u) |-> u[i] * v[i]]

\* Node n was built by the operator `kind` from two operands of equal shape.
EqualShapeOp(n, kind) ==
    /\ nodes[n].backward_op.kind = kind
    /\ nodes[nodes[n].children[1]].dimensions = nodes[nodes[n].children[2]].dimensions

\* C12: the visit of c = a + b (a, b of equal shape) with upstream gradient g
\* hands both child slots g unchanged; and once backward(None) on c has
\* returned, a child with no other consumer has gradient g, and a child that
\* is both operands has gradient 2g.
C12_AddProjection ==
    \A t \in ThreadIds :
        (/\ pc[t] = "visit" /\ pc'[t] # "visit"
         /\ EqualShapeOp(NodeOf(t), "add")) =>
            /\ pc'[t] = "send"
            /\ outs'[t] = <<delta[t], delta[t]>>

C12_AddGradient ==
    (ReturnedFromCall /\ Seed = "None" /\ EqualShapeOp(Root, "add")) =>
        LET g == gradient[Root]
            a == nodes[Root].children[1]
            b == nodes[Root].children[2]
        IN  /\ g = OnesLike(nodes[Root])
            /\ (a # b /\ Cardinality(InEdges(nodes, Root, a)) = 1) => gradient[a] = g
            /\ (a # b /\ Cardinality(InEdges(nodes, Root, b)) = 1) => gradient[b] = g
            /\ (a = b /\ Cardinality(InEdges(nodes, Root, a)) = 2)
                   => gradient[a] = Arr(g.dimensions, Scaled(g.values, 2))

C12_AddGradientLaw == [][C12_AddProjection]_vars /\ []C12_AddGradient

\* backward(None) has returned on a root a + b of two distinct two-element
\* leaves, and on no other call.
C12_Witness ==
    /\ ReturnedFromCall /\ Seed = "None" /\ EqualShapeOp(Root, "add")
    /\ nodes[Root].children[1] # nodes[Root].children[2]
    /\ gradient[nodes[Root].children[1]] = Arr(<<1, 2>>, <<1, 1>>)
    /\ gradient[nodes[Root].children[2]] = Arr(<<1, 2>>, <<1, 1>>)

\* ---- C13 ------------------------------------------------------------------
\* C13: the visit of c = a * b with upstream gradient g hands slot a the
\* values b.values (*) g with a's dimensions and slot b the values
\* a.values (*) g with b's dimensions; once backward(None) on c has returned,
\* an operand a # b with no other consumer has exactly that gradient.
C13_MulProjection ==
    \A t \in ThreadIds :
        (/\ pc[t] = "visit" /\ pc'[t] # "visit"
         /\ EqualShapeOp(NodeOf(t), "mul")
         /\ Len(delta[t].values) = Len(nodes[NodeOf(t)].values)) =>
            LET a == nodes[nodes[NodeOf(t)].children[1]]
                b == nodes[nodes[NodeOf(t)].children[2]]
            IN  /\ pc'[t] = "send"
                /\ outs'[t] = <<Arr(a.dimensions, Hadamard(b.values, delta[t].values)),
                                Arr(b.dimensions, Hadamard(a.values, delta[t].values))>>

C13_MulGradient ==
    (ReturnedFromCall /\ Seed = "None" /\ EqualShapeOp(Root, "mul")) =>
        LET g == gradient[Root]
            a == nodes[Root].children[1]
            b == nodes[Root].children[2]
        IN  /\ g = OnesLike(nodes[Root])
            /\ (a # b /\ Cardinality(InEdges(nodes, Root, a)) = 1)
                   => gradient[a] = Arr(nodes[a].dimensions,
                                        Hadamard(nodes[b].values, g.values))
            /\ (a # b /\ Cardinality(InEdges(nodes, Root, b)) = 1)
                   => gradient[b] = Arr(nodes[b].dimensions,
                                        Hadamard(nodes[a].values, g.values))

C13_MulGradientLaw == [][C13_MulProjection]_vars /\ []C13_MulGradient

\* backward(None) has returned on the root [[5, 2]] * [[6, 3]].
C13_Witness ==
    /\ ReturnedFromCall /\ Seed = "None" /\ EqualShapeOp(Root, "mul")
    /\ gradient[nodes[Root].children[1]] = Arr(<<1, 2>>, <<6, 3>>)
    /\ gradient[nodes[Root].children[2]] = Arr(<<1, 2>>, <<5, 2>>)

\* ---- C15 ------------------------------------------------------------------
\* C15: matmul never returns a result for operands (of rank 2 or more) whose
\* effective inner dimensions differ.
C15_MatmulRejectsInnerMismatch ==
    \A n \in 1..Len(nodes) :
        (/\ nodes[n].backward_op.kind = "matmul"
         /\ Len(nodes[nodes[n].children[1]].dimensions) >= 2
         /\ Len(nodes[nodes[n].children[2]].dimensions) >= 2) =>
            InnerA(nodes[nodes[n].children[1]], nodes[n].backward_op.a_transpose)
              = InnerB(nodes[nodes[n].children[2]], nodes[n].backward_op.b_transpose)

\* ---- C16 ------------------------------------------------------------------
\* The row count of the left operand and the column count of the right one
\* as the product sees them, and the leading axes it keeps.
MatmulRows(a, at) ==
    LET la == Len(a.dimensions)
    IN  IF la < 2 THEN 1 ELSE a.dimensions[IF at THEN la ELSE la - 1]

MatmulCols(b, bt) ==
    LET lb == Len(b.dimensions)
    IN  IF lb < 2 THEN 1 ELSE b.dimensions[IF bt THEN lb - 1 ELSE lb]

BatchAxes(a, b) ==
    Take(a.dimensions, Max(Min(Len(a.dimensions), Len(b.dimensions)) - 2, 0))

MatmulNodes == {n \in 1..Len(nodes) : nodes[n].backward_op.kind = "matmul"}

\* C16 as stated: the result of matmul has the batch axes followed by (rows,
\* columns), and as many values as the product of these.
C16_MatmulShapeRowsCols ==
    \A n \in MatmulNodes :
        LET a == nodes[nodes[n].children[1]]
            b == nodes[nodes[n].children[2]]
            op == nodes[n].backward_op
        IN  /\ nodes[n].dimensions = BatchAxes(a, b)
                   \o <<MatmulRows(a, op.a_transpose), MatmulCols(b, op.b_transpose)>>
            /\ Len(nodes[n].values) = Product(nodes[n].dimensions, 1, Len(nodes[n].dimensions))

\* C16 amended: the row axis is left out when the row count is 1.
C16_MatmulShape ==
    \A n \in MatmulNodes :
        LET a == nodes[nodes[n].children[1]]
            b == nodes[nodes[n].children[2]]
            op == nodes[n].backward_op
            rows == MatmulRows(a, op.a_transpose)
            cols == MatmulCols(b, op.b_transpose)
        IN  /\ nodes[n].dimensions = BatchAxes(a, b)
                   \o (IF rows = 1 THEN <<cols>> ELSE <<rows, cols>>)
            /\ Len(nodes[n].values) = Product(nodes[n].dimensions, 1, Len(nodes[n].dimensions))

\* The product of a 1x2 and a 2x2 operand exists; its row axis is left out.
C16_Witness ==
    \E n \in MatmulNodes :
        /\ nodes[nodes[n].children[1]].dimensions = <<1, 2>>
        /\ nodes[nodes[n].children[2]].dimensions = <<2, 2>>
        /\ nodes[n].backward_op = MatmulOp(FALSE, FALSE)
        /\ nodes[n].dimensions = <<2>>

\* ---- C18 ------------------------------------------------------------------
\* C18: add and mul return no result for operands of different shapes, and a
\* result they return has the operands' shape and as many values as the
\* product of its dimensions.
C18_ElementwiseShapeContract ==
    \A n \in 1..Len(nodes) :
        nodes[n].backward_op.kind \in {"add", "mul"} =>
            LET a == nodes[nodes[n].children[1]]
                b == nodes[nodes[n].children[2]]
            IN  /\ a.dimensions = b.dimensions
                /\ nodes[n].dimensions = a.dimensions
                /\ Len(nodes[n].values) = Product(nodes[n].dimensions, 1, Len(nodes[n].dimensions))

\* ---- C14 ------------------------------------------------------------------
\* Reference matrix algebra, written from the definition of the product and
\* independently of matmul_values.  Element (i, j) (from 1) of slice s (from
\* 0) of a stack of rs x cs matrices stored row-major in v:
At(v, rs, cs, s, i, j) == v[s * rs * cs + (i - 1) * cs + j]

\* Row and column count of the matrices of x as stored (last two axes).
StoredRows(x) == x.dimensions[Len(x.dimensions) - 1]
StoredCols(x) == x.dimensions[Len(x.dimensions)]

\* Element (r, k) of slice s of op(x), op being the transpose when tr holds.
OpAt(x, tr, s, r, k) ==
    IF tr THEN At(x.values, StoredRows(x), StoredCols(x), s, k, r)
    ELSE At(x.values, StoredRows(x), StoredCols(x), s, r, k)

\* d(sum of g (*) c)/da and /db for c = op(a) op(b), a and b of rank 2 and g
\* the rows x cols upstream gradient stored row-major: the true adjoints, as
\* value vectors in the layout of a and of b.
AdjointA(a, b, g, at, bt) ==
    LET cols == MatmulCols(b, bt)
        rows == MatmulRows(a, at)
    IN  [p \in 1..(StoredRows(a) * StoredCols(a)) |->
            LET i == ((p - 1) \div StoredCols(a)) + 1
                j == ((p - 1) % StoredCols(a)) + 1
                r == IF at THEN j ELSE i
                k == IF at THEN i ELSE j
            IN  SeqSum([c \in 1..cols |->
                           At(g, rows, cols, 0, r, c) * OpAt(b, bt, 0, k, c)])]

AdjointB(a, b, g, at, bt) ==
    LET cols == MatmulCols(b, bt)
        rows == MatmulRows(a, at)
    IN  [p \in 1..(StoredRows(b) * StoredCols(b)) |->
            LET i == ((p - 1) \div StoredCols(b)) + 1
                j == ((p - 1) % StoredCols(b)) + 1
                k == IF bt THEN j ELSE i
                c == IF bt THEN i ELSE j
            IN  SeqSum([r \in 1..rows |->
                           At(g, rows, cols, 0, r, c) * OpAt(a, at, 0, r, k)])]

\* The backward_op of node n has been called by the caller.
OpCalled(n) == idx[Main] = n /\ (outs[Main] # <<>> \/ err[Main] = "OpPanic")

\* C14: for c = matmul(a, b, at, bt) on 2-D operands with matching inner
\* dimensions, the backward_op called with an upstream gradient g of c's
\* size returns, for a and for b, the true adjoint of the product, one value
\* for every element of the operand.
C14_MatmulAdjoint ==
    \A n \in MatmulNodes :
        LET a == nodes[nodes[n].children[1]]
            b == nodes[nodes[n].children[2]]
            op == nodes[n].backward_op
        IN  (/\ OpCalled(n)
             /\ Len(a.dimensions) = 2 /\ Len(b.dimensions) = 2
             /\ InnerA(a, op.a_transpose) = InnerB(b, op.b_transpose)) =>
                /\ err[Main] # "OpPanic"
                /\ outs[Main][1].values =
                      AdjointA(a, b, delta[Main].values, op.a_transpose, op.b_transpose)
                /\ outs[Main][2].values =
                      AdjointB(a, b, delta[Main].values, op.a_transpose, op.b_transpose)

\* ---- C17 ------------------------------------------------------------------
\* The batched product from its definition: slice s of the result is
\* op(slice s of a) op(slice s of b).
RefMatmul(a, b, at, bt) ==
    LET rows == MatmulRows(a, at)
        cols == MatmulCols(b, bt)
        inner == InnerA(a, at)
        batches == Product(a.dimensions, 1, Len(a.dimensions) - 2)
    IN  [p \in 1..(batches * rows * cols) |->
            LET s == (p - 1) \div (rows * cols)
                r == (((p - 1) % (rows * cols)) \div cols) + 1
                c == ((p - 1) % cols) + 1
            IN  SeqSum([k \in 1..inner |-> OpAt(a, at, s, r, k) * OpAt(b, bt, s, k, c)])]

\* C17: for operands of equal rank (2 or more) with identical leading axes
\* and matching inner dimensions, the values matmul returns are the batched
\* matrix product.
C17_BatchedMatmul ==
    \A n \in MatmulNodes :
        LET a == nodes[nodes[n].children[1]]
            b == nodes[nodes[n].children[2]]
            op == nodes[n].backward_op
        IN  (/\ Len(a.dimensions) >= 2
             /\ Len(a.dimensions) = Len(b.dimensions)
             /\ Take(a.dimensions, Len(a.dimensions) - 2)
                   = Take(b.dimensions, Len(b.dimensions) - 2)
             /\ InnerA(a, op.a_transpose) = InnerB(b, op.b_transpose)) =>
                nodes[n].values = RefMatmul(a, b, op.a_transpose, op.b_transpose)

\* C19: the array an operator returns has neither children nor a backward_op
\* when none of its inputs is tracked, and has its operands as children
\* together with a backward_op when one of them is.  In the third
\* specification node 3 is the result of the one operator applied to
\* operands among nodes 1 and 2.
C19_GraphOnlyWhenTracked ==
    Len(nodes) = 3 =>
        /\ (~nodes[1].is_tracked /\ ~nodes[2].is_tracked)
               => (nodes[3].children = <<>> /\ nodes[3].backward_op.kind = "None")
        /\ (nodes[1].is_tracked /\ nodes[2].is_tracked)
               => (nodes[3].children # <<>> /\ nodes[3].backward_op.kind # "None")
        /\ nodes[3].children # <<>>
               => /\ nodes[3].backward_op.kind # "None"
                  /\ \E s \in 1..Len(nodes[3].children) :
                        nodes[nodes[3].children[s]].is_tracked

\* C20: when backward runs on the result of an operator that has a tracked
\* and an untracked operand, the untracked operand keeps its child slot but
\* takes no part: no worker is started for it, nothing is sent to its inbox,
\* its gradient is not written, and the call does not fail.  Node 3 is the
\* result, and backward(None) on it is the one call made.
C20_UntrackedOperandSkipped ==
    \A s \in 1..2 :
        (/\ Len(nodes) = 3
         /\ calls = <<[root |-> 3, seed |-> "None"]>>
         /\ s <= Len(nodes[3].children)
         /\ ~nodes[nodes[3].children[s]].is_tracked
         /\ \E u \in 1..Len(nodes[3].children) : nodes[nodes[3].children[u]].is_tracked)
        => LET c == nodes[3].children[s]
           IN  /\ pc[c] = "none"
               /\ ~tx[c]
               /\ inbox[c] = <<>>
               /\ received[c] = {}
               /\ gradient[c] = NoArray
               /\ ~CallFailed

\* C21: a step of a backward call (the call itself, or a step of one of its
\* threads) leaves dimensions, values, children and backward_op of every
\* node as they are, and leaves gradient, consumer_count and the inbox (the
\* installed sender, the receiver and the queued messages) of every node
\* that is not reachable from the root as they are.
C21_Frame ==
    (calls' # calls \/ pc[Main] # "idle") =>
        /\ nodes' = nodes
        /\ \A n \in NodeIds \ Reach(nodes, calls'[Len(calls')].root) :
              /\ gradient'[n] = gradient[n]
              /\ consumer_count'[n] = consumer_count[n]
              /\ inbox'[n] = inbox[n]
              /\ tx'[n] = tx[n]
              /\ rx_alive'[n] = rx_alive[n]

C21_BackwardFrame == [][C21_Frame]_vars

\* backward(None) has returned on a root with children, whose children have
\* their gradients, while a node outside the root's graph has none.
C21_Witness ==
    /\ ReturnedFromCall /\ Seed = "None" /\ Len(calls) = 1
    /\ HasChildren(nodes[Root])
    /\ \A n \in Reach(nodes, Root) : gradient[n] # NoArray
    /\ \E n \in 1..Len(nodes) :
          n \notin Reach(nodes, Root) /\ gradient[n] = NoArray /\ consumer_count[n] = 0

\* C22: a call of conv whose image or filters have rank less than 3 fails
\* with the error of conv's guard, and nothing is unrolled, multiplied or
\* returned.
C22_ConvStep ==
    (Conv /\ ConvRankCheck(nodes[1], nodes[2])) =>
        /\ pc'[Main] = "failed"
        /\ err'[Main] = "ConvRank"
        /\ nodes' = nodes

C22_ConvRejectsLowRank == [][C22_ConvStep]_vars

\* C23: when conv(image, filters, (stride_r, stride_c)) returns, its shape is
\* the image's leading axes followed by (F, out_r, out_c), with out_r =
\* (rows - frows) / stride_r + 1 and out_c = (cols - fcols) / stride_c + 1,
\* and it holds as many values as that shape has elements.  F is the axis
\* ahead of the filters' last three, and 1 for filters of rank 3.
ConvFilterCount(filters) ==
    IF Len(filters.dimensions) = 3 THEN 1
    ELSE filters.dimensions[Len(filters.dimensions) - 3]

ConvShape(image, filters, stride) ==
    LET dc == Len(image.dimensions)
        fc == Len(filters.dimensions)
    IN  Take(image.dimensions, dc - 3)
            \o <<ConvFilterCount(filters),
                 ((image.dimensions[dc - 1] - filters.dimensions[fc - 1]) \div stride[1]) + 1,
                 ((image.dimensions[dc] - filters.dimensions[fc]) \div stride[2]) + 1>>

C23_ConvStep ==
    \A stride \in Strides, build \in Builds :
        (ConvCall(stride, build) /\ Len(nodes') = 3) =>
            /\ nodes'[3].dimensions = ConvShape(nodes[1], nodes[2], stride)
            /\ Len(nodes'[3].values)
                   = Product(nodes'[3].dimensions, 1, Len(nodes'[3].dimensions))

RECURSIVE ConcatValues(_, _)
ConcatValues(ns, elems) ==
    IF elems = <<>> THEN <<>>
    ELSE ConcatValues(ns, SubSeq(elems, 1, Len(elems) - 1)) \o ns[elems[Len(elems)]].values

\* Some element of the list has other dimensions than the first one.
Mismatched(ns, elems) ==
    \E k \in 1..Len(elems) : ns[elems[k]].dimensions # ns[elems[1]].dimensions

\* C24: a nested construction from k >= 1 arrays of one shape S returns an
\* array of shape <<k>> \o S whose values are the elements' values in order,
\* whether the values of an element have another holder or not.
C24_NestedStep ==
    \A elems \in ElemLists : \A shared \in [1..Len(elems) -> BOOLEAN] :
        (Len(elems) >= 1 /\ ~Mismatched(nodes, elems) /\ NestedCall(elems, shared)) =>
            /\ Len(nodes') = Len(nodes) + 1
            /\ nodes'[Len(nodes')].dimensions
                   = <<Len(elems)>> \o nodes[elems[1]].dimensions
            /\ nodes'[Len(nodes')].values = ConcatValues(nodes, elems)

C24_NestedConstruction == [][C24_NestedStep]_vars

\* Two different arrays of shape <<MaxAxis>> were nested, and the result was
\* nested once more with itself.
C24_Witness ==
    /\ Len(nodes) = 4
    /\ nodes[1].dimensions = <<MaxAxis>> /\ nodes[2].dimensions = <<MaxAxis>>
    /\ nodes[3].dimensions = <<2, MaxAxis>>
    /\ nodes[3].values = nodes[1].values \o nodes[2].values
    /\ nodes[4].dimensions = <<2, 2, MaxAxis>>
    /\ nodes[4].values = nodes[3].values \o nodes[3].values

\* C25: a nested construction in which an element's shape differs from the
\* first element's fails with the shape error and returns no array, at the
\* first level of nesting and at the next one.
C25_NestedStep ==
    \A elems \in ElemLists : \A shared \in [1..Len(elems) -> BOOLEAN] :
        (Mismatched(nodes, elems) /\ NestedCall(elems, shared)) =>
            /\ pc'[Main] = "failed"
            /\ err'[Main] = "ShapeMismatch"
            /\ nodes' = nodes

C25_NestedMismatchFails == [][C25_NestedStep]_vars

\* A construction of the second level has failed on a nested array and an
\* array of the same rank but another shape.
C25_Witness ==
    /\ pc[Main] = "failed" /\ err[Main] = "ShapeMismatch"
    /\ Len(nodes) = 3
    /\ Len(nodes[3].dimensions) = 2
    /\ \E n \in 1..2 : /\ Len(nodes[n].dimensions) = 2
                        /\ nodes[n].dimensions # nodes[3].dimensions

\* The row-major position of a coordinate vector: coordinate p weighs the
\* product of the dimensions behind p.
RowMajor(indices, dimensions) ==
    SeqSum([p \in 1..Len(indices) |->
                indices[p] * Product(dimensions, p + 1, Len(dimensions))])

\* A coordinate vector of the rank's length with every coordinate in range.
InRange(indices, dimensions) ==
    /\ Len(indices) = Len(dimensions)
    /\ \A p \in 1..Len(indices) : indices[p] < dimensions[p]

\* The read returned v / failed with the invalid-index error.
ReadReturned(v) == outs'[Main] = <<v>> /\ pc'[Main] = "idle"
ReadRejected == pc'[Main] = "failed" /\ err'[Main] = "InvalidIndex" /\ outs' = outs

\* C26: a coordinate vector of the rank's length with every coordinate below
\* its dimension reads the element at its row-major position, a flat index
\* below the value count reads the element at that position, and every other
\* index fails with the invalid-index error.
C26_IndexStep ==
    /\ \A n \in 1..Len(nodes) : \A indices \in Coordinates(nodes[n]) :
           IndexVecCall(n, indices) =>
               IF InRange(indices, nodes[n].dimensions)
               THEN ReadReturned(nodes[n].values[RowMajor(indices, nodes[n].dimensions) + 1])
               ELSE ReadRejected
    /\ \A n \in 1..Len(nodes) : \A index \in FlatIndices(nodes[n]) :
           IndexFlatCall(n, index) =>
               IF index < Len(nodes[n].values)
               THEN ReadReturned(nodes[n].values[index + 1])
               ELSE ReadRejected

C26_IndexAccepted == [][C26_IndexStep]_vars

\* C27: a backward(None) call that starts with every consumer_count at zero
\* leaves, after its phase 1, in every node the number of edges into it from
\* the nodes under the root, also when a node with children has several
\* parents under the root.
C27_Phase1Step ==
    (/\ calls' # calls
     /\ calls'[Len(calls')].seed = "None"
     /\ \A n \in NodeIds : consumer_count[n] = 0) =>
        \A n \in 1..Len(nodes) :
            consumer_count'[n]
                = Cardinality(InEdges(nodes, calls'[Len(calls')].root, n))

C27_Phase1CountsEdges == [][C27_Phase1Step]_vars

\* The places where a running visit keeps the handle of the worker of c.
HandlesOf(c) ==
    {h \in ThreadIds \X (1..MaxNodes) : h[2] <= Len(handles[h[1]]) /\ handles[h[1]][h[2]] = c}

\* A worker is started for c only when none was ever started for it, on an
\* empty inbox, with the contribution of the edge that installed it.
C28_Install ==
    \A c \in Workers :
        (pc'[c] = "await" /\ pc[c] # "await") =>
            /\ pc[c] = "none" /\ ~tx[c] /\ tx'[c]
            /\ inbox[c] = <<>> /\ inbox'[c] = <<>>
            /\ Cardinality(received'[c]) = 1

\* The inbox of c changes by a contribution sent to the running worker of c,
\* or by that worker taking its first message and recording it.
C28_Inbox ==
    \A c \in NodeIds :
        inbox'[c] # inbox[c] =>
            \/ /\ Len(inbox'[c]) = Len(inbox[c]) + 1
               /\ SubSeq(inbox'[c], 1, Len(inbox[c])) = inbox[c]
               /\ tx[c] /\ pc[c] \in {"await", "recv"}
               /\ UNCHANGED <<tx, received, handles>>
            \/ /\ inbox[c] # <<>>
               /\ inbox'[c] = Tail(inbox[c])
               /\ pc[c] = "recv"
               /\ received'[c] = received[c] \cup {Head(inbox[c]).src}

\* In a backward(None) call on arrays no call has run on, no delivery fails:
\* each one installs or sends.
C28_Delivers ==
    \A t \in ThreadIds :
        (Len(calls) = 1 /\ Seed = "None" /\ pc[t] = "send") => pc'[t] # Panicked(t)

\* In such a call one handle at most exists per child, and a child whose
\* worker visits has taken the contribution of every edge into it.
C28_OneWorker ==
    (Len(calls) = 1 /\ Seed = "None") =>
        \A c \in Workers :
            /\ Cardinality(HandlesOf(c)) <= 1
            /\ pc[c] \in {"visit", "send", "join", "done"}
                   => received[c] = InEdges(nodes, Root, c)

\* C28: the check of a child's sender and the installation of its inbox are
\* one step: whatever the interleaving of the parents of a child, one of them
\* installs the inbox and starts the child's only worker, every other
\* contribution goes through that inbox to that worker, and none is lost.
C28_AtomicInstall ==
    /\ [][C28_Install /\ C28_Inbox /\ C28_Delivers]_vars
    /\ []C28_OneWorker

\* A child with two parents, one of them a worker that installed the child's
\* inbox ahead of the caller, has taken both contributions and has ended.
C28_Witness ==
    /\ Len(calls) = 1 /\ Seed = "None"
    /\ \E c \in Workers :
          /\ pc[c] = "done"
          /\ \E e1, e2 \in received[c] : e1[1] # e2[1]
          /\ \E h \in HandlesOf(c) : h[1] # Main

C30_UnrollStep ==
    \A i \in 1..Len(nodes) : \A stride \in Pairs, filter \in Pairs :
        UnrollBlocksCall(i, stride, filter) =>
            LET image == nodes[i]
                result == nodes'[Len(nodes')]
                rank == Len(image.dimensions)
                depth == image.dimensions[rank - 2]
                rows == image.dimensions[rank - 1]
                cols == image.dimensions[rank]
                out_r == ((rows - filter[1]) \div stride[1]) + 1
                out_c == ((cols - filter[2]) \div stride[2]) + 1
                width == depth * filter[1] * filter[2]
                leading == Product(image.dimensions, 1, rank - 3)
            IN  /\ result.dimensions
                       = SubSeq(image.dimensions, 1, rank - 3) \o <<out_r * out_c, width>>
                /\ Len(result.values) = leading * out_r * out_c * width
                /\ \A b \in 0..(leading - 1), r \in 0..(out_r - 1), c \in 0..(out_c - 1),
                      k \in 0..(depth - 1), m \in 0..(filter[1] - 1), n \in 0..(filter[2] - 1) :
                      result.values[(b * out_r * out_c * width)
                                    + ((r * out_c + c) * width)
                                    + ((k * filter[1] + m) * filter[2]) + n + 1]
                          = image.values[(b * depth * rows * cols)
                                         + ((k * rows + (r * stride[1] + m)) * cols)
                                         + (c * stride[2] + n) + 1]

C30_UnrollLayout == [][C30_UnrollStep]_vars

\* An image of MaxAxis layers of one 2 x 2 plane was unrolled with a 2 x 1
\* filter: every layer gives its two columns as rows.
C30_Witness ==
    /\ Len(nodes) = 3
    /\ nodes[1].dimensions = <<MaxAxis, 1, 2, 2>>
    /\ nodes[3].dimensions = <<MaxAxis, 2, 2>>
    /\ \A b \in 0..(MaxAxis - 1) :
          /\ nodes[3].values[4 * b + 1] = nodes[1].values[4 * b + 1]
          /\ nodes[3].values[4 * b + 2] = nodes[1].values[4 * b + 3]
          /\ nodes[3].values[4 * b + 3] = nodes[1].values[4 * b + 2]
          /\ nodes[3].values[4 * b + 4] = nodes[1].values[4 * b + 4]

\* The patches of a filter of size f moved by stride s cover every position
\* of an axis of length len.
CoversAxis(len, f, s) ==
    \A p \in 0..(len - 1) :
        \E r \in 0..((len - f) \div s) : r * s <= p /\ p < r * s + f

\* C31: when the patches cover the image, rolling back what unroll_blocks
\* made of an image, with the image's dimensions and the same stride and
\* filter, returns the image, for strides above 1 in either direction.
C31_RollStep ==
    \A x \in 1..Len(nodes), i \in 1..Len(nodes) : \A stride \in Pairs, filter \in Pairs :
        (/\ Len(nodes[x].dimensions) = 3
         /\ filter[1] <= nodes[x].dimensions[2]
         /\ filter[2] <= nodes[x].dimensions[3]
         /\ CoversAxis(nodes[x].dimensions[2], filter[1], stride[1])
         /\ CoversAxis(nodes[x].dimensions[3], filter[2], stride[2])
         /\ nodes[i].dimensions = unroll_blocks_values(nodes[x], stride, filter).dimensions
         /\ nodes[i].values = unroll_blocks_values(nodes[x], stride, filter).values
         /\ RollBlocksCall(i, nodes[x].dimensions, stride, filter)) =>
            /\ Len(nodes') = Len(nodes) + 1
            /\ nodes'[Len(nodes')].dimensions = nodes[x].dimensions
            /\ nodes'[Len(nodes')].values = nodes[x].values

C31_RollUnrollRoundTrip == [][C31_RollStep]_vars

\* The image position that entry o of an unrolled slice was copied from:
\* entry (k * frows + m) * fcols + n of row r * out_c + c comes from
\* image[k, r * stride_r + m, c * stride_c + n].
PatchSource(o, image_dimensions, stride, filter) ==
    LET out_c == ((image_dimensions[3] - filter[2]) \div stride[2]) + 1
        width == image_dimensions[1] * filter[1] * filter[2]
        row == (o - 1) \div width
        n == (o - 1) % filter[2]
        m == ((o - 1) \div filter[2]) % filter[1]
        k == ((o - 1) % width) \div (filter[1] * filter[2])
    IN  ((k * image_dimensions[2] + ((row \div out_c) * stride[1] + m)) * image_dimensions[3])
        + ((row % out_c) * stride[2] + n) + 1

\* The adjoint of unroll_blocks at image position p: the sum of the entries
\* of g that unroll_blocks copies from p.
AdjointAt(g, p, image_dimensions, stride, filter) ==
    SeqSum([o \in 1..Len(g) |->
               IF PatchSource(o, image_dimensions, stride, filter) = p THEN g[o] ELSE 0])

\* g has the shape unroll_blocks gives an image of these dimensions.
UnrolledShape(g, image_dimensions, stride, filter) ==
    /\ filter[1] <= image_dimensions[2]
    /\ filter[2] <= image_dimensions[3]
    /\ g.dimensions
          = <<(((image_dimensions[2] - filter[1]) \div stride[1]) + 1)
                  * (((image_dimensions[3] - filter[2]) \div stride[2]) + 1),
              image_dimensions[1] * filter[1] * filter[2]>>

\* C32: roll_blocks applied to a gradient g of the unrolled matrix gives at
\* every image position the sum of the entries of g that belong to the
\* patches containing the position: overlapping patches add up.
C32_RollStep ==
    \A i \in 1..Len(nodes) : \A stride \in Pairs, filter \in Pairs :
        \A image_dimensions \in {nodes[1].dimensions} :
            (/\ Len(image_dimensions) = 3
             /\ UnrolledShape(nodes[i], image_dimensions, stride, filter)
             /\ RollBlocksCall(i, image_dimensions, stride, filter)) =>
                /\ Len(nodes') = Len(nodes) + 1
                /\ nodes'[Len(nodes')].dimensions = image_dimensions
                /\ \A q \in 1..(image_dimensions[1] * image_dimensions[2]
                                    * image_dimensions[3]) :
                       nodes'[Len(nodes')].values[q]
                           = AdjointAt(nodes[i].values, q, image_dimensions, stride, filter)

C32_RollIsAdjoint == [][C32_RollStep]_vars

\* a is an array of shape (out_r * out_c, F)
ExpandOperand(a, stride_counts) ==
    /\ Len(a.dimensions) = 2
    /\ a.dimensions[1] = stride_counts[1] * stride_counts[2]
    /\ Filled(a)

\* e has shape (F, out_r, out_c) and e[f, r, c] = a[r * out_c + c, f]
ExpandedFrom(e, a, stride_counts) ==
    LET F == a.dimensions[2]
    IN  /\ e.dimensions = <<F, stride_counts[1], stride_counts[2]>>
        /\ Len(e.values) = F * stride_counts[1] * stride_counts[2]
        /\ \A f \in 0..(F - 1), r \in 0..(stride_counts[1] - 1),
              c \in 0..(stride_counts[2] - 1) :
              e.values[((f * stride_counts[1] + r) * stride_counts[2]) + c + 1]
                  = a.values[((r * stride_counts[2] + c) * F) + f + 1]

\* The result of expand_conv on a tracked array of shape (out_r * out_c, F)
\* has the stated shape and elements, and its backward_op takes the result
\* back to the array.
C33_ExpandStep ==
    \A stride_counts \in Pairs :
        (/\ Len(nodes) = 1
         /\ nodes[1].is_tracked
         /\ ExpandOperand(nodes[1], stride_counts)
         /\ ExpandConvCall(1, stride_counts)) =>
            /\ ExpandedFrom(nodes'[2], nodes[1], stride_counts)
            /\ nodes'[2].children = <<1>>
            /\ expand_backward(nodes'[2].backward_op, <<nodes[1]>>,
                               Arr(nodes'[2].dimensions, nodes'[2].values))
                   = Ok(<<Arr(nodes[1].dimensions, nodes[1].values)>>)

\* backward on the result with the result as the seed does not fail, and
\* once it has returned the gradient of the array is the array.
C33_SeededBackward ==
    (/\ Len(nodes) = 2
     /\ nodes[2].backward_op.kind = "expand_conv"
     /\ \E stride_counts \in Pairs :
           /\ ExpandOperand(nodes[1], stride_counts)
           /\ ExpandedFrom(nodes[2], nodes[1], stride_counts)
     /\ calls = <<[root |-> 2, seed |-> "Self"]>>) =>
        /\ pc[Main] # "failed"
        /\ pc[Main] = "idle" => gradient[1] = Arr(nodes[1].dimensions, nodes[1].values)

\* C33: for a tracked array a of shape (out_r * out_c, F), expand_conv gives
\* shape (F, out_r, out_c) with element [f, r, c] = a[r * out_c + c, f], its
\* backward_op is the inverse permutation, and backward on the result with
\* the result as the seed sets the gradient of a to a.
C33_ExpandConvAndBack ==
    /\ [][C33_ExpandStep]_vars
    /\ []C33_SeededBackward

\* C34: for an array of shape (batch, out_r * out_c, F) expand_conv gives
\* shape (batch, F, out_r, out_c) with element [b, f, r, c] equal to the
\* array's element [b, r * out_c + c, f], also for batch > 1 and F > 1.
C34_ExpandStep ==
    \A stride_counts \in Pairs :
        (/\ Len(nodes) = 1
         /\ Len(nodes[1].dimensions) = 3
         /\ nodes[1].dimensions[2] = stride_counts[1] * stride_counts[2]
         /\ ExpandConvCall(1, stride_counts)) =>
            LET a == nodes[1]
                e == nodes'[2]
                batch == a.dimensions[1]
                count == a.dimensions[2]
                F == a.dimensions[3]
            IN  /\ e.dimensions = <<batch, F, stride_counts[1], stride_counts[2]>>
                /\ Len(e.values) = batch * F * count
                /\ \A b \in 0..(batch - 1), f \in 0..(F - 1), r \in 0..(stride_counts[1] - 1),
                      c \in 0..(stride_counts[2] - 1) :
                      e.values[(b * F * count)
                               + ((f * stride_counts[1] + r) * stride_counts[2]) + c + 1]
                          = a.values[(b * count * F)
                                     + ((r * stride_counts[2] + c) * F) + f + 1]

C34_ExpandPerBatch == [][C34_ExpandStep]_vars

\* C35: a matmul whose left operand has one effective row returns the common
\* batch axes followed by the column count alone, with one value per
\* element; for two rank-1 vectors of one length, taken as they are, that is
\* the shape <<1>> holding their dot product.
C35_MatmulSingleRow ==
    \A n \in MatmulNodes :
        LET a == nodes[nodes[n].children[1]]
            b == nodes[nodes[n].children[2]]
            op == nodes[n].backward_op
        IN  (/\ MatmulRows(a, op.a_transpose) = 1
             /\ Take(a.dimensions, Len(a.dimensions) - 2)
                   = Take(b.dimensions, Len(b.dimensions) - 2)) =>
                /\ nodes[n].dimensions
                       = Take(a.dimensions, Len(a.dimensions) - 2)
                             \o <<MatmulCols(b, op.b_transpose)>>
                /\ Len(nodes[n].values)
                       = Product(nodes[n].dimensions, 1, Len(nodes[n].dimensions))
                /\ (/\ Len(a.dimensions) = 1 /\ a.dimensions = b.dimensions
                    /\ ~op.a_transpose) =>
                       /\ nodes[n].dimensions = <<1>>
                       /\ nodes[n].values
                              = <<SeqSum([k \in 1..Len(a.values) |->
                                             a.values[k] * b.values[k]])>>

\* Two different vectors of length MaxAxis have been multiplied.
C35_Witness ==
    \E n \in MatmulNodes :
        /\ nodes[n].children = <<1, 2>>
        /\ nodes[1].dimensions = <<MaxAxis>> /\ nodes[2].dimensions = <<MaxAxis>>
        /\ nodes[n].backward_op = MatmulOp(FALSE, FALSE)
        /\ nodes[n].dimensions = <<1>>
        /\ Len(nodes[n].values) = 1

\* backward(None) has been called a second time on the root of the first
\* call, a node with children.
SecondCall ==
    /\ Len(calls) = 2
    /\ calls[1] = calls[2]
    /\ calls[2].seed = "None"
    /\ HasChildren(nodes[calls[2].root])

\* The second call and every step after it leave all gradients as the
\* first call left them, and the caller's first delivery fails on send.
C36_Step ==
    /\ SecondCall' => gradient' = gradient
    /\ (SecondCall /\ pc[Main] = "send") =>
           /\ idx[Main] = 1
           /\ pc'[Main] = "failed"
           /\ err'[Main] = "SendError"

\* During the second call every child of the root still has the sender of
\* the first call while its receiver is gone, no worker runs, and the call
\* has not returned.
C36_Stale ==
    SecondCall =>
        /\ pc[Main] \in {"visit", "send", "failed"}
        /\ \A t \in Workers : pc[t] \in {"none", "done"}
        /\ \A k \in 1..Len(nodes[Root].children) :
              tx[nodes[Root].children[k]] /\ ~rx_alive[nodes[Root].children[k]]
        /\ \A n \in Reach(nodes, Root) : ~gradient[n].none

\* C36: a second backward(None) on the same root of a graph with an operator
\* node never returns: the sender that the first call installed in each child
\* is still there while its receiver is gone, so the call fails at its first
\* delivery and the gradients of the first call stay.
C36_SecondBackwardFails ==
    /\ [][C36_Step]_vars
    /\ []C36_Stale

\* The second call on a root of depth two has failed at its first delivery.
C36_Witness ==
    /\ SecondCall
    /\ pc[Main] = "failed" /\ err[Main] = "SendError"
    /\ \E n \in Reach(nodes, Root) \ {Root} : HasChildren(nodes[n])
    /\ \A n \in Reach(nodes, Root) : ~gradient[n].none
====
